---- MODULE Spec2Model ----
(***************************************************************************)
(* A model of the PySenku game engine (peg solitaire):                     *)
(*   pysenku/model/senkugame.py  SenkuGame, avg                            *)
(*   pysenku/model/move.py       Move                                      *)
(*   pysenku/util/stack.py       DynamicBoundedStack                       *)
(*   pysenku/util/observer.py    Subject                                   *)
(*   pysenku/ui/uisenku.py       UISenku, BoardArea, UndoButton            *)
(*                                                                         *)
(* Every method is a state transformer over a record                       *)
(*   [board, stack, with_tracking, notes, error, observers, updates]       *)
(* so that a method calling another one is an operator applied to the      *)
(* result of another one, as in the code.  An action is one call from      *)
(* outside (the UI) of a public method.  The observers only record what    *)
(* they are notified of, except in UISpec, where the widgets are updated   *)
(* and UISenku.update restarts the game when the user says so.             *)
(***************************************************************************)
EXTENDS Integers, Sequences, FiniteSets, TLC

VARIABLES
    board,          \* SenkuGame._board: dict cell -> bool
    undo_stack,     \* SenkuGame._undo_stack: [data: Seq, size: Nat]
    with_tracking,  \* SenkuGame._with_tracking
    notes,          \* the notify() calls of the last operation, in order
    error,          \* the exception the last operation ended with, or "none"
    op,             \* the name of the last operation called
    result,         \* <<v>> when the last operation returned v, else <<>>
                    \* (the stack on its own)
    pushed,         \* the items pushed and not popped since the stack was
                    \* built or emptied, evicted ones included: what a stack
                    \* without a limit would hold (the stack on its own);
                    \* for the game, in DepthSpec: the moves made and not
                    \* undone since the initial layout, oldest first, each
                    \* with its place in the row of moves it was made in;
                    \* in PlaySpec: the jumps made since the initial layout
    observers,      \* Subject.observers: dict aspect -> list of observers
    updates,        \* the calls of Observer.update made by the last
                    \* operation, in order: [observer, aspect, value]
    args,           \* the arguments of the call of check_distance or
                    \* check_cells (the two checks on their own)
    ui              \* the widgets of ui/uisenku.py: BoardArea._selection,
                    \* what BoardArea has drawn in each cell, the state of
                    \* the button of UndoButton, and whether open_ui was
                    \* called (UISpec; elsewhere they stay as built, and
                    \* what the observers are delivered is in updates)

vars ==
    <<board, undo_stack, with_tracking, notes, error, op, result, pushed,
      observers, updates, args, ui>>

----------------------------------------------------------------------------
(* Bounds of the model *)

\* successful moves allowed since the initial layout (pegs removed)
MaxMoves == 1

\* moves of SolutionLine made in DepthSpec
MaxDepth == 7

\* play on its own is free on boards with at most MaxPlayPegs pegs
MaxPlayPegs == 8

\* the stack on its own: its sizes are 1..MaxSize, its items 1..MaxItem, and
\* at most MaxPushes items are pushed and not popped
MaxSize == 3

MaxItem == 2

MaxPushes == 5

\* check_end on its own: boards with at most MaxPegs occupied cells, and
\* boards with at most MaxPegs empty cells
MaxPegs == 2

\* the subject and its observers: at most MaxRegistered entries in the lists
\* of observers
MaxRegistered == 2

----------------------------------------------------------------------------
(* Program constants *)

MAX_UNDO_ACTIONS == 5

\* "for infinite undo, just put a value > 32": MAX_UNDO_ACTIONS set so
InfiniteUndo == 33

DEFAULT_GAME_TRACKING == TRUE

----------------------------------------------------------------------------
(* Python dict and list primitives *)

\* dict[key] = value: replaces the value of a key, or adds the key
Put(d, key, value) ==
    [k \in (DOMAIN d) \cup {key} |-> IF k = key THEN value ELSE d[k]]

\* key in dict
Has(d, key) == key \in DOMAIN d

EmptyDict == [k \in {} |-> FALSE]

Last(s) == s[Len(s)]

Front(s) == SubSeq(s, 1, Len(s) - 1)

----------------------------------------------------------------------------
(* util/observer.py *)

\* Subject.__init__: the dictionary with the special aspect "all"
NewSubject == [a \in {"all"} |-> <<>>]

\* the default of the parameter aspect of add_observer and remove_observer
None == "<None>"

\* Subject.add_aspect on the dictionary: the entry with an empty list
add_aspect(obs, aspect) == Put(obs, aspect, <<>>)

add_observer(st, obj, aspect) ==
    IF aspect = None
    THEN [st EXCEPT !.observers = Put(@, "all", Append(@["all"], obj))]
    ELSE LET obs == IF Has(st.observers, aspect) THEN st.observers
                    ELSE add_aspect(st.observers, aspect)
         IN  [st EXCEPT !.observers = Put(obs, aspect, Append(obs[aspect], obj))]

\* list.remove(x): without the first item equal to x
RemoveFirst(s, x) ==
    LET i == CHOOSE j \in 1..Len(s) : s[j] = x /\ \A k \in 1..(j - 1) : s[k] # x
    IN  SubSeq(s, 1, i - 1) \o SubSeq(s, i + 1, Len(s))

\* a missing aspect raises KeyError, an observer that is not in the list
\* raises ValueError
remove_observer(st, obj, aspect) ==
    LET key == IF aspect = None THEN "all" ELSE aspect
    IN  IF ~Has(st.observers, key) THEN [st EXCEPT !.error = "KeyError"]
        ELSE IF \A j \in 1..Len(st.observers[key]) : st.observers[key][j] # obj
             THEN [st EXCEPT !.error = "ValueError"]
        ELSE [st EXCEPT !.observers = Put(@, key, RemoveFirst(@[key], obj))]

\* notify that calls the observers of "all" before those of the aspect
notify_all_first(st, aspect, value) ==
    LET obs == IF Has(st.observers, aspect) THEN st.observers
               ELSE add_aspect(st.observers, aspect)
        to  == obs["all"] \o obs[aspect]
    IN  [st EXCEPT
            !.observers = obs,
            !.notes = Append(@, [aspect |-> aspect, value |-> value]),
            !.updates = @ \o [i \in 1..Len(to) |->
                [observer |-> to[i], aspect |-> aspect, value |-> value]]]

\* Subject.notify(aspect, value): update() of the observers of the aspect,
\* the entry of an unknown aspect being added first, then of the observers
\* of "all".  notes logs the call, updates the calls of update().  The
\* value of an UNDO_STACK notification is the stack's content at that time.
notify(st, aspect, value) ==
    LET obs == IF Has(st.observers, aspect) THEN st.observers
               ELSE add_aspect(st.observers, aspect)
        to  == obs[aspect] \o obs["all"]
    IN  [st EXCEPT
            !.observers = obs,
            !.notes = Append(@, [aspect |-> aspect, value |-> value]),
            !.updates = @ \o [i \in 1..Len(to) |->
                [observer |-> to[i], aspect |-> aspect, value |-> value]]]

----------------------------------------------------------------------------
(* util/stack.py: DynamicBoundedStack, a record [data, size] *)

\* a stack built one larger than asked
NewStack_one_more(size) == [data |-> <<>>, size |-> size + 1]

NewStack(size) == [data |-> <<>>, size |-> size]

\* is_full with the comparison off by one
is_full_above(s) == Len(s.data) > s.size

is_full(s) == Len(s.data) = s.size

is_empty(s) == s.data = <<>>

\* make_empty that removes the newest element only
make_empty_drops_newest(s) ==
    [s EXCEPT !.data = IF @ = <<>> THEN @ ELSE Front(@)]

make_empty(s) == [s EXCEPT !.data = <<>>]

\* push that drops the newest element, pop() for pop(0)
push_drops_newest(s, elem) ==
    LET kept == IF is_full(s) THEN Front(s.data) ELSE s.data
    IN  [s EXCEPT !.data = Append(kept, elem)]

\* push without the test of is_full: the oldest element always goes
push_always_evicts(s, elem) == [s EXCEPT !.data = IF @ = <<>> THEN <<elem>> ELSE Append(Tail(@), elem)]

push(s, elem) ==
    LET kept == IF is_full(s) THEN Tail(s.data) ELSE s.data
    IN  [s EXCEPT !.data = Append(kept, elem)]

\* list.pop() of an empty list raises IndexError
pop_raises(s) == Len(s.data) = 0

\* the element returned by pop()
pop_value(s) == Last(s.data)

\* pop that removes the oldest element, pop(0) for pop()
pop_oldest(s) == [s EXCEPT !.data = Tail(@)]

\* the stack after pop()
pop(s) == [s EXCEPT !.data = Front(@)]

----------------------------------------------------------------------------
(* model/senkugame.py *)

\* avg without the division
avg_sum(a, b) == <<a[1] + b[1], a[2] + b[2]>>

\* (a[i] + b[i]) / 2 for each i.  Python 2 divides integers, Python 3 gives
\* a float that is equal to, and hashes as, the integer when the sum is even;
\* the code only looks a midpoint up after check_distance, where both sums
\* are even.
avg(a, b) == <<(a[1] + b[1]) \div 2, (a[2] + b[2]) \div 2>>

\* the cells __fill_board fills, in the order it fills them
FillOrder ==
    LET arms == <<0, 1, 5, 6>>
        mids == <<2, 3, 4>>
    IN  [i \in 1..12 |-> <<arms[((i - 1) \div 3) + 1], ((i - 1) % 3) + 2>>]
        \o [i \in 1..21 |-> <<mids[((i - 1) \div 7) + 1], (i - 1) % 7>>]

Center == <<3, 3>>

fill_cell(st, cell) ==
    notify([st EXCEPT !.board = Put(@, cell, TRUE)], "CELL_ON", cell)

\* empty_cell that notifies and leaves the board as it is
empty_cell_notify_only(st, cell) == notify(st, "CELL_OFF", cell)

empty_cell(st, cell) ==
    notify([st EXCEPT !.board = Put(@, cell, FALSE)], "CELL_OFF", cell)

RECURSIVE FillFrom(_, _)
FillFrom(st, i) ==
    IF i > Len(FillOrder) THEN st
    ELSE FillFrom(fill_cell(st, FillOrder[i]), i + 1)

\* __fill_board without its last line, the center
fill_board_all_filled(st) == FillFrom(st, 1)

fill_board(st) == empty_cell(FillFrom(st, 1), Center)

Abs(n) == IF n < 0 THEN -n ELSE n

\* check_distance that does not compare the other axis
check_distance_one_axis(orig, dest) ==
    \/ Abs(orig[1] - dest[1]) = 2
    \/ Abs(orig[2] - dest[2]) = 2

\* check_distance with <= for ==
check_distance_within_two(orig, dest) ==
    \/ (Abs(orig[1] - dest[1]) <= 2 /\ orig[2] = dest[2])
    \/ (Abs(orig[2] - dest[2]) <= 2 /\ orig[1] = dest[1])

check_distance(orig, dest) ==
    \/ (Abs(orig[1] - dest[1]) = 2 /\ orig[2] = dest[2])
    \/ (Abs(orig[2] - dest[2]) = 2 /\ orig[1] = dest[1])

\* check_cells reads board[orig], board[dest], board[avg] left to right and
\* stops at the first one that decides the conjunction; a key that is not in
\* the dict raises KeyError.
check_cells_raises(b, orig, dest) ==
    \/ ~Has(b, orig)
    \/ /\ b[orig]
       /\ \/ ~Has(b, dest)
          \/ (~b[dest] /\ ~Has(b, avg(orig, dest)))

\* check_cells that asks for an empty cell between orig and dest
check_cells_mid_empty(b, orig, dest) ==
    b[orig] /\ ~b[dest] /\ ~b[avg(orig, dest)]

\* check_cells without the test of the destination
check_cells_dest_any(b, orig, dest) ==
    b[orig] /\ b[avg(orig, dest)]

check_cells(b, orig, dest) ==
    b[orig] /\ ~b[dest] /\ b[avg(orig, dest)]

\* the coordinates of the model: the 7 x 7 grid the cross is cut from
Coords == (0..6) \X (0..6)

\* the pairs of coordinates that pass check_distance
DistancePairs ==
    {q : q \in {p \in Coords \X Coords : check_distance(p[1], p[2])}}

\* the pairs (pos1, pos2) of the two loops of check_end that reach
\* check_cells: both are keys, pos1 is occupied, the distance is right
ScanPairsOf(b, keys) ==
    {p \in DistancePairs : p[1] \in keys /\ p[2] \in keys /\ b[p[1]]}

ScanPairs(b) == ScanPairsOf(b, DOMAIN b)

\* a pair of the scan of check_end on which check_cells raises
check_end_raises(b) ==
    \E p \in ScanPairs(b) : check_cells_raises(b, p[1], p[2])

\* the scan of check_end finds a movement
check_end_finds(b) ==
    \E p \in ScanPairs(b) : check_cells(b, p[1], p[2])

\* cells_left counted for every cell, occupied or not
cells_left_all(b) == Cardinality(DOMAIN b)

\* cells_left when the scan ends without a movement: every occupied cell
cells_left(b) == Cardinality({pos1 \in DOMAIN b : b[pos1]})

\* check_end that notifies when it finds a movement
check_end_inverted(st) ==
    IF check_end_raises(st.board) THEN [st EXCEPT !.error = "KeyError"]
    ELSE IF check_end_finds(st.board)
         THEN notify(st, "GAME_OVER", cells_left(st.board))
    ELSE st

\* The scan stops at the first movement it finds, so whether a lookup that
\* raises is reached depends on the order of the dict; the model lets it
\* raise whenever one pair of the scan would.
check_end(st) ==
    IF check_end_raises(st.board) THEN [st EXCEPT !.error = "KeyError"]
    ELSE IF check_end_finds(st.board) THEN st
    ELSE notify(st, "GAME_OVER", cells_left(st.board))

\* movement_done that notifies the observers of the stack before it pushes
movement_done_notifies_first(st, command) ==
    LET s1 == notify(st, "UNDO_STACK", st.stack.data)
        s2 == [s1 EXCEPT !.stack = push(@, command)]
    IN  IF s2.with_tracking THEN check_end(s2) ELSE s2

\* movement_done that checks the end whatever the tracking flag is
movement_done_always_checks(st, command) ==
    LET s1 == [st EXCEPT !.stack = push(@, command)]
        s2 == notify(s1, "UNDO_STACK", s1.stack.data)
    IN  check_end(s2)

movement_done(st, command) ==
    LET s1 == [st EXCEPT !.stack = push(@, command)]
        s2 == notify(s1, "UNDO_STACK", s1.stack.data)
    IN  IF s2.with_tracking THEN check_end(s2) ELSE s2

----------------------------------------------------------------------------
(* model/move.py *)

\* a Move whose midpoint is its origin
Move_mid_at_origin(orig, dest) ==
    [origin |-> orig, mid |-> avg(orig, orig), dest |-> dest]

Move(orig, dest) == [origin |-> orig, mid |-> avg(orig, dest), dest |-> dest]

\* execute that leaves the jumped cell as it is
execute_keeps_mid(st, m) ==
    IF ~check_distance(m.origin, m.dest) THEN st
    ELSE IF check_cells_raises(st.board, m.origin, m.dest)
         THEN [st EXCEPT !.error = "KeyError"]
    ELSE IF ~check_cells(st.board, m.origin, m.dest) THEN st
    ELSE movement_done(fill_cell(empty_cell(st, m.origin), m.dest), m)

\* execute that checks the end of the game when it rejects the move
execute_checks_end_on_reject(st, m) ==
    IF ~check_distance(m.origin, m.dest) THEN check_end(st)
    ELSE IF check_cells_raises(st.board, m.origin, m.dest)
         THEN [st EXCEPT !.error = "KeyError"]
    ELSE IF ~check_cells(st.board, m.origin, m.dest) THEN check_end(st)
    ELSE movement_done(
             empty_cell(fill_cell(empty_cell(st, m.origin), m.dest), m.mid), m)

execute(st, m) ==
    IF ~check_distance(m.origin, m.dest) THEN st
    ELSE IF check_cells_raises(st.board, m.origin, m.dest)
         THEN [st EXCEPT !.error = "KeyError"]
    ELSE IF ~check_cells(st.board, m.origin, m.dest) THEN st
    ELSE movement_done(
            empty_cell(fill_cell(empty_cell(st, m.origin), m.dest), m.mid), m)

\* undo of a movement that leaves the destination as it is
Move_undo_keeps_dest(st, m) ==
    fill_cell(fill_cell(st, m.origin), m.mid)

\* undo of a movement as the mirror of execute: midpoint, destination, origin
Move_undo_mirror(st, m) ==
    fill_cell(empty_cell(fill_cell(st, m.mid), m.dest), m.origin)

\* undo of a movement that does not put the jumped peg back
Move_undo_skips_mid(st, m) ==
    empty_cell(fill_cell(st, m.origin), m.dest)

Move_undo(st, m) ==
    empty_cell(fill_cell(fill_cell(st, m.origin), m.mid), m.dest)

----------------------------------------------------------------------------
(* model/senkugame.py, continued *)

\* undo that notifies before it pops
undo_notifies_first(st) ==
    LET s0 == notify(st, "UNDO_STACK", st.stack.data)
    IN  IF pop_raises(s0.stack) THEN [s0 EXCEPT !.error = "IndexError"]
        ELSE Move_undo([s0 EXCEPT !.stack = pop(@)], pop_value(s0.stack))

\* undo that checks the end of the game, when tracking is on, before it pops
undo_checks_end(st) ==
    LET s0 == IF st.with_tracking THEN check_end(st) ELSE st
    IN  IF pop_raises(s0.stack) THEN [s0 EXCEPT !.error = "IndexError"]
        ELSE LET m  == pop_value(s0.stack)
                 s1 == Move_undo([s0 EXCEPT !.stack = pop(@)], m)
             IN  notify(s1, "UNDO_STACK", s1.stack.data)

undo(st) ==
    IF pop_raises(st.stack) THEN [st EXCEPT !.error = "IndexError"]
    ELSE LET m  == pop_value(st.stack)
             s1 == Move_undo([st EXCEPT !.stack = pop(@)], m)
         IN  notify(s1, "UNDO_STACK", s1.stack.data)

\* restart that keeps the undo stack
restart_keeps_stack(st) ==
    LET s1 == fill_board(st)
    IN  notify(s1, "UNDO_STACK", s1.stack.data)

\* restart that builds the game again as __init__ does, Subject.__init__
\* included
restart_as_new_game(st) ==
    LET s1 == fill_board([st EXCEPT !.observers = NewSubject, !.board = EmptyDict])
        s2 == [s1 EXCEPT !.stack = NewStack(MAX_UNDO_ACTIONS),
                         !.with_tracking = DEFAULT_GAME_TRACKING]
    IN  notify(s2, "UNDO_STACK", s2.stack.data)

\* restart that notifies the observers of the stack before it empties it
restart_notifies_first(st) ==
    LET s1 == fill_board(st)
        s2 == notify(s1, "UNDO_STACK", s1.stack.data)
    IN  [s2 EXCEPT !.stack = make_empty(@)]

restart(st) ==
    LET s1 == fill_board(st)
        s2 == [s1 EXCEPT !.stack = make_empty(@)]
    IN  notify(s2, "UNDO_STACK", s2.stack.data)

\* set_tracking that stores the opposite of its argument
set_tracking_negated(st, track) == [st EXCEPT !.with_tracking = ~track]

set_tracking(st, track) == [st EXCEPT !.with_tracking = track]

\* the keys of the board in the order a loop over the dict visits them: the
\* order of insertion, which for the cells is the order of __fill_board; the
\* model keeps no order of the keys added after them
RECURSIVE AnyOrder(_)
AnyOrder(S) ==
    IF S = {} THEN <<>>
    ELSE LET x == CHOOSE y \in S : TRUE IN <<x>> \o AnyOrder(S \ {x})

KeyOrder(b) ==
    LET InBoard(c) == Has(b, c)
    IN  SelectSeq(FillOrder, InBoard)
        \o AnyOrder({k \in DOMAIN b : \A i \in 1..Len(FillOrder) : FillOrder[i] # k})

\* the loop of get_all_changes without its else branch
RECURSIVE ReplayFrom_occupied_only(_, _, _)
ReplayFrom_occupied_only(st, keys, i) ==
    IF i > Len(keys) THEN st
    ELSE ReplayFrom_occupied_only(
            IF st.board[keys[i]] THEN notify(st, "CELL_ON", keys[i]) ELSE st,
            keys, i + 1)

RECURSIVE ReplayFrom(_, _, _)
ReplayFrom(st, keys, i) ==
    IF i > Len(keys) THEN st
    ELSE ReplayFrom(
            notify(st, IF st.board[keys[i]] THEN "CELL_ON" ELSE "CELL_OFF", keys[i]),
            keys, i + 1)

get_all_changes(st) ==
    ReplayFrom(notify(st, "UNDO_STACK", st.stack.data), KeyOrder(st.board), 1)

\* SenkuGame.__init__: no observer is registered yet, so the notifications
\* of __fill_board are delivered to nobody
NewGame ==
    LET s0 == [board |-> EmptyDict, stack |-> NewStack(MAX_UNDO_ACTIONS),
               with_tracking |-> DEFAULT_GAME_TRACKING,
               notes |-> <<>>, error |-> "none",
               observers |-> NewSubject, updates |-> <<>>]
    IN  [fill_board(s0) EXCEPT !.notes = <<>>]

\* main_pysenku.py: the game, then its user interface, whose three parts
\* register themselves in the order UISenku.__init__ builds them
GameWithUI ==
    add_observer(
        add_observer(
            add_observer(
                add_observer(NewGame, "UISenku", "GAME_OVER"),
                "BoardArea", "CELL_OFF"),
            "BoardArea", "CELL_ON"),
        "UndoButton", "UNDO_STACK")

----------------------------------------------------------------------------
(* ui/uisenku.py: the widgets *)

BOARD_RECTANGLE_SIZE == 40

CELL_EMPTY_COLOR == "black"

CELL_NOT_EMPTY_COLOR == "red"

\* BoardArea._selection when there is no selection
NoSelection == <<>>

\* the widgets as UISenku.__init__ builds them: nothing drawn on the canvas,
\* no selection, the button of UndoButton in the state Tk gives a button,
\* NORMAL
UIBuilt ==
    [selection |-> NoSelection,
     canvas    |-> [c \in {FillOrder[i] : i \in 1..Len(FillOrder)} |-> "none"],
     button    |-> "NORMAL",
     opened    |-> FALSE]

----------------------------------------------------------------------------
(* The engine as a state machine: one action per call of a public method *)

\* the state an operation starts from: the log and the outcome are its own
Enter ==
    [board |-> board, stack |-> undo_stack, with_tracking |-> with_tracking,
     notes |-> <<>>, error |-> "none",
     observers |-> observers, updates |-> <<>>]

\* the state an operation called name leaves
Return(st, name) ==
    /\ board' = st.board
    /\ undo_stack' = st.stack
    /\ with_tracking' = st.with_tracking
    /\ notes' = st.notes
    /\ error' = st.error
    /\ op' = name
    /\ observers' = st.observers
    /\ updates' = st.updates

Leave(st, name) ==
    /\ Return(st, name)
    /\ UNCHANGED <<result, pushed, args, ui>>

Cells == {FillOrder[i] : i \in 1..Len(FillOrder)}

PegsRemoved == Cardinality({c \in DOMAIN board : ~board[c]}) - 1

Init ==
    /\ board = GameWithUI.board
    /\ undo_stack = GameWithUI.stack
    /\ with_tracking = GameWithUI.with_tracking
    /\ notes = GameWithUI.notes
    /\ error = GameWithUI.error
    /\ op = "init"
    /\ result = <<>>
    /\ pushed = <<>>
    /\ observers = GameWithUI.observers
    /\ updates = GameWithUI.updates
    /\ args = <<>>
    /\ ui = UIBuilt

\* the jumps of two shortest games that end with no movement left, six
\* jumps each: the first three, then the one or the other three
DeadEndLine ==
    { <<<<1, 3>>, <<3, 3>>>>, <<<<4, 3>>, <<2, 3>>>>, <<<<6, 3>>, <<4, 3>>>>,
      <<<<3, 1>>, <<3, 3>>>>, <<<<3, 4>>, <<3, 2>>>>, <<<<3, 6>>, <<3, 4>>>>,
      <<<<3, 5>>, <<3, 3>>>>, <<<<3, 2>>, <<3, 4>>>>, <<<<3, 0>>, <<3, 2>>>> }

\* Move(game, orig, dest).execute() passes both checks
Accepted(orig, dest) ==
    /\ check_distance(orig, dest)
    /\ ~check_cells_raises(board, orig, dest)
    /\ check_cells(board, orig, dest)

\* Move(game, orig, dest).execute() on a jump that passes both checks: any
\* jump while fewer than MaxMoves pegs are gone, the jumps of DeadEndLine
\* at any time
Execute(orig, dest) ==
    /\ Accepted(orig, dest)
    /\ PegsRemoved < MaxMoves \/ <<orig, dest>> \in DeadEndLine
    /\ Leave(execute(Enter, Move(orig, dest)), "execute")

\* Move(game, orig, dest).execute() on a pair that fails a check
ExecuteRejected(orig, dest) ==
    /\ ~Accepted(orig, dest)
    /\ Leave(execute(Enter, Move(orig, dest)), "execute")

\* the pairs of cells at the distance of a movement
CellJumps ==
    {q : q \in {p \in Cells \X Cells : check_distance(p[1], p[2])}}

\* pairs that fail check_distance: a diagonal, twice the same cell,
\* neighbours, a jump of three, a jump of four
NoJumps ==
    { <<<<2, 2>>, <<4, 4>>>>, <<<<3, 3>>, <<3, 3>>>>, <<<<3, 2>>, <<3, 3>>>>,
      <<<<3, 0>>, <<3, 3>>>>, <<<<0, 3>>, <<4, 3>>>>, <<<<2, 3>>, <<4, 2>>>> }

\* what execute() leaves, over the pairs of CellJumps and NoJumps that fail
\* a check
RejectedOutcomes ==
    { execute(Enter, Move(p[1], p[2])) :
        p \in {q \in CellJumps \cup NoJumps : ~Accepted(q[1], q[2])} }

\* the steps of \E p \in CellJumps \cup NoJumps : ExecuteRejected(p[1], p[2]),
\* each outcome generated once
ExecuteRejectedAny == \E st \in RejectedOutcomes : Leave(st, "execute")

Undo == Leave(undo(Enter), "undo")

Restart == Leave(restart(Enter), "restart")

SetTracking(track) == Leave(set_tracking(Enter, track), "set_tracking")

CheckEnd == Leave(check_end(Enter), "check_end")

GetAllChanges == Leave(get_all_changes(Enter), "get_all_changes")

Next ==
    \/ \E p \in CellJumps : Execute(p[1], p[2])
    \/ ExecuteRejectedAny
    \/ Undo
    \/ Restart
    \/ \E track \in BOOLEAN : SetTracking(track)
    \/ CheckEnd
    \/ GetAllChanges

Spec == Init /\ [][Next]_vars

----------------------------------------------------------------------------
(* The stack on its own: a DynamicBoundedStack of any size from 1 to       *)
(* MaxSize, holding items of 1..MaxItem.                                   *)

StackInit ==
    /\ board = EmptyDict
    /\ \E size \in 1..MaxSize : undo_stack = NewStack(size)
    /\ with_tracking = DEFAULT_GAME_TRACKING
    /\ notes = <<>>
    /\ error = "none"
    /\ op = "init"
    /\ result = <<>>
    /\ pushed = <<>>
    /\ observers = NewSubject
    /\ updates = <<>>
    /\ args = <<>>
    /\ ui = UIBuilt

Push(elem) ==
    /\ Len(pushed) < MaxPushes
    /\ undo_stack' = push(undo_stack, elem)
    /\ pushed' = Append(pushed, elem)
    /\ error' = "none"
    /\ result' = <<>>
    /\ op' = "push"
    /\ UNCHANGED <<board, with_tracking, notes, observers, updates, args, ui>>

Pop ==
    /\ IF pop_raises(undo_stack)
       THEN /\ error' = "IndexError"
            /\ result' = <<>>
            /\ UNCHANGED <<undo_stack, pushed>>
       ELSE /\ error' = "none"
            /\ result' = <<pop_value(undo_stack)>>
            /\ undo_stack' = pop(undo_stack)
            /\ pushed' = Front(pushed)
    /\ op' = "pop"
    /\ UNCHANGED <<board, with_tracking, notes, observers, updates, args, ui>>

MakeEmpty ==
    /\ undo_stack' = make_empty(undo_stack)
    /\ pushed' = <<>>
    /\ error' = "none"
    /\ result' = <<>>
    /\ op' = "make_empty"
    /\ UNCHANGED <<board, with_tracking, notes, observers, updates, args, ui>>

StackNext ==
    \/ \E elem \in 1..MaxItem : Push(elem)
    \/ Pop
    \/ MakeEmpty

StackSpec == StackInit /\ [][StackNext]_vars

\* items are only pushed, onto a stack that is empty
PushNext ==
    \/ \E elem \in 1..MaxItem : Push(elem)
    \/ MakeEmpty

PushSpec == StackInit /\ [][PushNext]_vars

----------------------------------------------------------------------------
(* check_end on its own: on every board of the 33 cells with at most       *)
(* MaxPegs occupied cells or at most MaxPegs empty cells.                  *)

RECURSIVE UpTo(_)
UpTo(n) ==
    IF n = 0 THEN {{}}
    ELSE LET smaller == UpTo(n - 1)
         IN  smaller \cup {S \cup {c} : S \in smaller, c \in Cells}

EndBoards ==
    {[c \in Cells |-> c \in S] : S \in UpTo(MaxPegs)}
    \cup {[c \in Cells |-> c \notin S] : S \in UpTo(MaxPegs)}

EndInit ==
    /\ board \in EndBoards
    /\ undo_stack = NewStack(MAX_UNDO_ACTIONS)
    /\ with_tracking \in BOOLEAN
    /\ notes = <<>>
    /\ error = "none"
    /\ op = "init"
    /\ result = <<>>
    /\ pushed = <<>>
    /\ observers = GameWithUI.observers
    /\ updates = <<>>
    /\ args = <<>>
    /\ ui = UIBuilt

EndNext == CheckEnd

EndSpec == EndInit /\ [][EndNext]_vars

----------------------------------------------------------------------------
(* The game with MAX_UNDO_ACTIONS set above 32, "infinite undo", played    *)
(* along a game that ends with one peg.                                    *)

\* the 31 jumps of a game that leaves one peg, in the center
SolutionLine ==
    << <<<<1, 3>>, <<3, 3>>>>,
       <<<<2, 1>>, <<2, 3>>>>,
       <<<<0, 2>>, <<2, 2>>>>,
       <<<<0, 4>>, <<0, 2>>>>,
       <<<<2, 3>>, <<2, 1>>>>,
       <<<<2, 0>>, <<2, 2>>>>,
       <<<<2, 4>>, <<0, 4>>>>,
       <<<<2, 6>>, <<2, 4>>>>,
       <<<<3, 2>>, <<1, 2>>>>,
       <<<<0, 2>>, <<2, 2>>>>,
       <<<<5, 2>>, <<3, 2>>>>,
       <<<<2, 2>>, <<4, 2>>>>,
       <<<<3, 0>>, <<3, 2>>>>,
       <<<<3, 2>>, <<5, 2>>>>,
       <<<<6, 2>>, <<4, 2>>>>,
       <<<<6, 4>>, <<6, 2>>>>,
       <<<<3, 4>>, <<3, 2>>>>,
       <<<<5, 4>>, <<3, 4>>>>,
       <<<<3, 2>>, <<5, 2>>>>,
       <<<<3, 4>>, <<1, 4>>>>,
       <<<<0, 4>>, <<2, 4>>>>,
       <<<<3, 6>>, <<3, 4>>>>,
       <<<<4, 0>>, <<4, 2>>>>,
       <<<<4, 3>>, <<4, 1>>>>,
       <<<<6, 2>>, <<4, 2>>>>,
       <<<<4, 1>>, <<4, 3>>>>,
       <<<<4, 6>>, <<4, 4>>>>,
       <<<<4, 3>>, <<4, 5>>>>,
       <<<<2, 4>>, <<4, 4>>>>,
       <<<<4, 5>>, <<4, 3>>>>,
       <<<<5, 3>>, <<3, 3>>>> >>

LongInit ==
    /\ board = GameWithUI.board
    /\ undo_stack = NewStack(InfiniteUndo)
    /\ with_tracking = GameWithUI.with_tracking
    /\ notes = GameWithUI.notes
    /\ error = GameWithUI.error
    /\ op = "init"
    /\ result = <<>>
    /\ pushed = <<>>
    /\ observers = GameWithUI.observers
    /\ updates = GameWithUI.updates
    /\ args = <<>>
    /\ ui = UIBuilt

\* Move(game, orig, dest).execute() on a jump that passes both checks: any
\* jump while fewer than MaxMoves pegs are gone, the jumps of DeadEndLine at
\* any time, the jumps of SolutionLine each at its turn
LongExecute(orig, dest) ==
    /\ Accepted(orig, dest)
    /\ \/ PegsRemoved < MaxMoves
       \/ <<orig, dest>> \in DeadEndLine
       \/ /\ Len(undo_stack.data) < Len(SolutionLine)
          /\ <<orig, dest>> = SolutionLine[Len(undo_stack.data) + 1]
    /\ Leave(execute(Enter, Move(orig, dest)), "execute")

LongNext ==
    \/ \E p \in CellJumps : LongExecute(p[1], p[2])
    \/ Undo
    \/ Restart

LongSpec == LongInit /\ [][LongNext]_vars

----------------------------------------------------------------------------
(* fill_cell and empty_cell called from outside, as the public methods     *)
(* they are, on cells of the board and on coordinates that are none.       *)

\* the coordinates the two methods are called with: three cells, and four
\* coordinates outside the cross
ProbeCells ==
    { <<3, 3>>, <<0, 2>>, <<4, 6>>,
      <<0, 0>>, <<1, 1>>, <<7, 3>>, <<-1, 3>> }

FillCell(cell) == Leave(fill_cell(Enter, cell), "fill_cell")

EmptyCell(cell) == Leave(empty_cell(Enter, cell), "empty_cell")

CellNext ==
    \/ \E cell \in ProbeCells : FillCell(cell)
    \/ \E cell \in ProbeCells : EmptyCell(cell)

CellSpec == Init /\ [][CellNext]_vars

----------------------------------------------------------------------------
(* The game as a subject: observers are added and removed, for an aspect   *)
(* or for all, while the game is played and restarted.                     *)

ObserverNames == {"o1", "o2"}

\* the aspects observers are added and removed for; None is for all
ObservedAspects == {None, "CELL_OFF", "UNDO_STACK", "GAME_OVER"}

\* the number of entries of the lists of observers
RECURSIVE RegisteredIn(_, _)
RegisteredIn(obs, keys) ==
    IF keys = {} THEN 0
    ELSE LET k == CHOOSE a \in keys : TRUE
         IN  Len(obs[k]) + RegisteredIn(obs, keys \ {k})

ObsInit ==
    /\ board = NewGame.board
    /\ undo_stack = NewGame.stack
    /\ with_tracking = NewGame.with_tracking
    /\ notes = NewGame.notes
    /\ error = NewGame.error
    /\ op = "init"
    /\ result = <<>>
    /\ pushed = <<>>
    /\ observers = NewGame.observers
    /\ updates = NewGame.updates
    /\ args = <<>>
    /\ ui = UIBuilt

AddObserver(obj, aspect) ==
    /\ RegisteredIn(observers, DOMAIN observers) < MaxRegistered
    /\ Leave(add_observer(Enter, obj, aspect), "add_observer")

RemoveObserver(obj, aspect) ==
    Leave(remove_observer(Enter, obj, aspect), "remove_observer")

\* Move(game, orig, dest).execute() on a first jump of DeadEndLine
FirstExecute(orig, dest) ==
    /\ Accepted(orig, dest)
    /\ PegsRemoved = 0
    /\ <<orig, dest>> \in DeadEndLine
    /\ Leave(execute(Enter, Move(orig, dest)), "execute")

ObsNext ==
    \/ \E obj \in ObserverNames, aspect \in ObservedAspects : AddObserver(obj, aspect)
    \/ \E obj \in ObserverNames, aspect \in ObservedAspects : RemoveObserver(obj, aspect)
    \/ \E p \in DeadEndLine : FirstExecute(p[1], p[2])
    \/ Restart
    \/ \E track \in BOOLEAN : SetTracking(track)

ObserverSpec == ObsInit /\ [][ObsNext]_vars

----------------------------------------------------------------------------
(* check_distance on its own: called on the game as it is built, with      *)
(* every pair of coordinates of the 7 x 7 grid.                            *)

DistanceInit ==
    /\ board = GameWithUI.board
    /\ undo_stack = GameWithUI.stack
    /\ with_tracking = GameWithUI.with_tracking
    /\ notes = GameWithUI.notes
    /\ error = GameWithUI.error
    /\ op = "init"
    /\ result = <<>>
    /\ pushed = <<>>
    /\ observers = GameWithUI.observers
    /\ updates = GameWithUI.updates
    /\ args \in Coords \X Coords
    /\ ui = UIBuilt

CheckDistance ==
    /\ result' = <<check_distance(args[1], args[2])>>
    /\ op' = "check_distance"
    /\ UNCHANGED <<board, undo_stack, with_tracking, notes, error, pushed,
                   observers, updates, args, ui>>

DistanceNext == CheckDistance

DistanceSpec == DistanceInit /\ [][DistanceNext]_vars

----------------------------------------------------------------------------
(* check_cells on its own: called with every pair of cells that passes     *)
(* check_distance, on boards where the three cells of the jump have every  *)
(* occupancy and the other cells are all occupied or all empty (boards     *)
(* that fill_cell and empty_cell build).                                   *)

JumpBoard(orig, dest, occ, rest) ==
    [c \in Cells |->
        IF c = orig THEN occ[1]
        ELSE IF c = dest THEN occ[2]
        ELSE IF c = avg(orig, dest) THEN occ[3]
        ELSE rest]

CellsInit ==
    /\ args \in CellJumps
    /\ ui = UIBuilt
    /\ \E occ \in BOOLEAN \X BOOLEAN \X BOOLEAN, rest \in BOOLEAN :
          board = JumpBoard(args[1], args[2], occ, rest)
    /\ undo_stack = GameWithUI.stack
    /\ with_tracking = GameWithUI.with_tracking
    /\ notes = GameWithUI.notes
    /\ error = GameWithUI.error
    /\ op = "init"
    /\ result = <<>>
    /\ pushed = <<>>
    /\ observers = GameWithUI.observers
    /\ updates = GameWithUI.updates

CheckCells ==
    /\ IF check_cells_raises(board, args[1], args[2])
       THEN error' = "KeyError" /\ result' = <<>>
       ELSE error' = "none" /\ result' = <<check_cells(board, args[1], args[2])>>
    /\ op' = "check_cells"
    /\ UNCHANGED <<board, undo_stack, with_tracking, notes, pushed,
                   observers, updates, args, ui>>

CellsNext == CheckCells

CellsSpec == CellsInit /\ [][CellsNext]_vars

----------------------------------------------------------------------------
(* Moves in a row, then undo() until it fails: the game with the moves it  *)
(* made on record                                                           *)

\* the number of successful moves made in a row up to now, with no undo()
\* and no restart() since the first of them
InARow == IF op = "execute" /\ pushed # <<>> THEN Last(pushed).row ELSE 0

\* Move(game, orig, dest).execute() on a jump that passes both checks: any
\* jump while fewer than MaxMoves pegs are gone, the first MaxDepth jumps of
\* SolutionLine each at its turn
DepthExecute(orig, dest) ==
    /\ Accepted(orig, dest)
    /\ \/ PegsRemoved < MaxMoves
       \/ /\ PegsRemoved < MaxDepth
          /\ <<orig, dest>> = SolutionLine[PegsRemoved + 1]
    /\ Return(execute(Enter, Move(orig, dest)), "execute")
    /\ pushed' = Append(pushed, [jump |-> <<orig, dest>>, row |-> InARow + 1])
    /\ UNCHANGED <<result, args, ui>>

DepthUndo ==
    /\ Return(undo(Enter), "undo")
    /\ pushed' = IF pop_raises(undo_stack) THEN pushed ELSE Front(pushed)
    /\ UNCHANGED <<result, args, ui>>

DepthRestart ==
    /\ Return(restart(Enter), "restart")
    /\ pushed' = <<>>
    /\ UNCHANGED <<result, args, ui>>

DepthNext ==
    \/ \E p \in CellJumps : DepthExecute(p[1], p[2])
    \/ DepthUndo
    \/ DepthRestart

DepthSpec == Init /\ [][DepthNext]_vars

----------------------------------------------------------------------------
(* Play on its own: only Move.execute is called, and a jump that passes    *)
(* both checks is made as long as there is one: the jumps of SolutionLine  *)
(* each at its turn, and any jump once MaxPlayPegs pegs or fewer are left. *)

\* Move(game, orig, dest).execute() on a jump that passes both checks
PlayExecute(orig, dest) ==
    /\ Accepted(orig, dest)
    /\ \/ 32 - Len(pushed) <= MaxPlayPegs
       \/ /\ Len(pushed) < Len(SolutionLine)
          /\ <<orig, dest>> = SolutionLine[Len(pushed) + 1]
    /\ Return(execute(Enter, Move(orig, dest)), "execute")
    /\ pushed' = Append(pushed, <<orig, dest>>)
    /\ UNCHANGED <<result, args, ui>>

PlayMove == \E p \in CellJumps : PlayExecute(p[1], p[2])

PlayNext ==
    \/ PlayMove
    \/ ExecuteRejectedAny

\* the steps of PlayMove, told by the jump they put on record: a jump that
\* passes both checks is made
PlayStep ==
    \E p \in CellJumps :
        /\ Accepted(p[1], p[2])
        /\ \/ 32 - Len(pushed) <= MaxPlayPegs
           \/ /\ Len(pushed) < Len(SolutionLine)
              /\ p = SolutionLine[Len(pushed) + 1]
        /\ pushed' = Append(pushed, p)

\* a jump that passes both checks is made whenever there is one
PlaySpec == Init /\ [][PlayNext]_vars /\ WF_pushed(PlayStep)

----------------------------------------------------------------------------
(* The application: the game with the widgets of ui/uisenku.py.  open_ui   *)
(* is called, then the user clicks on the canvas, on the button of         *)
(* UndoButton when it is not disabled, and on the button Nuevo; to the     *)
(* dialog of UISenku.update the user answers yes or no.                    *)

\* UISenku.update: askyesno, and start() when the answer is yes
UISenku_update(st, answer) == IF answer THEN restart(st) ELSE st

\* the loops of Subject.notify over the observers to, from the place i on,
\* update() of UISenku running where it is called
RECURSIVE update_from(_, _, _, _, _, _)
update_from(st, to, i, aspect, value, answer) ==
    IF i > Len(to) THEN st
    ELSE LET s1 == [st EXCEPT !.updates = Append(@,
                        [observer |-> to[i], aspect |-> aspect, value |-> value])]
             s2 == IF to[i] = "UISenku" THEN UISenku_update(s1, answer) ELSE s1
         IN  update_from(s2, to, i + 1, aspect, value, answer)

\* Subject.notify(aspect, value) when UISenku may be among the observers
notify_ui(st, aspect, value, answer) ==
    LET obs == IF Has(st.observers, aspect) THEN st.observers
               ELSE add_aspect(st.observers, aspect)
        to  == obs[aspect] \o obs["all"]
        s0  == [st EXCEPT
                   !.observers = obs,
                   !.notes = Append(@, [aspect |-> aspect, value |-> value])]
    IN  update_from(s0, to, 1, aspect, value, answer)

\* check_end, its GAME_OVER notification reaching UISenku
check_end_ui(st, answer) ==
    IF check_end_raises(st.board) THEN [st EXCEPT !.error = "KeyError"]
    ELSE IF check_end_finds(st.board) THEN st
    ELSE notify_ui(st, "GAME_OVER", cells_left(st.board), answer)

\* movement_done that checks the end before it pushes the command
movement_done_ui_pushes_last(st, command, answer) ==
    LET s0 == IF st.with_tracking THEN check_end_ui(st, answer) ELSE st
        s1 == [s0 EXCEPT !.stack = push(@, command)]
    IN  notify(s1, "UNDO_STACK", s1.stack.data)

movement_done_ui(st, command, answer) ==
    LET s1 == [st EXCEPT !.stack = push(@, command)]
        s2 == notify(s1, "UNDO_STACK", s1.stack.data)
    IN  IF s2.with_tracking THEN check_end_ui(s2, answer) ELSE s2

execute_ui(st, m, answer) ==
    IF ~check_distance(m.origin, m.dest) THEN st
    ELSE IF check_cells_raises(st.board, m.origin, m.dest)
         THEN [st EXCEPT !.error = "KeyError"]
    ELSE IF ~check_cells(st.board, m.origin, m.dest) THEN st
    ELSE movement_done_ui(
            empty_cell(fill_cell(empty_cell(st, m.origin), m.dest), m.mid),
            m, answer)

\* BoardArea.update that draws for CELL_ON only
BoardArea_update_on_only(w, aspect, value) ==
    IF aspect = "CELL_ON"
    THEN [w EXCEPT !.canvas = Put(@, value, CELL_NOT_EMPTY_COLOR)]
    ELSE w

\* BoardArea.update: a circle of the colour of the aspect drawn in the cell
BoardArea_update(w, aspect, value) ==
    IF aspect = "CELL_ON"
    THEN [w EXCEPT !.canvas = Put(@, value, CELL_NOT_EMPTY_COLOR)]
    ELSE IF aspect = "CELL_OFF"
    THEN [w EXCEPT !.canvas = Put(@, value, CELL_EMPTY_COLOR)]
    ELSE w

\* UndoButton.update that never disables the button
UndoButton_update_never_disables(w, aspect, value) ==
    [w EXCEPT !.button = "NORMAL"]

\* UndoButton.update: value is the stack, here its content when notified
UndoButton_update(w, aspect, value) ==
    IF value = <<>> THEN [w EXCEPT !.button = "DISABLED"]
    ELSE [w EXCEPT !.button = "NORMAL"]

\* the widgets after the calls of update() of log, from the place i on
RECURSIVE Observe(_, _, _)
Observe(w, log, i) ==
    IF i > Len(log) THEN w
    ELSE LET u == log[i]
         IN  Observe(IF u.observer = "BoardArea"
                       THEN BoardArea_update(w, u.aspect, u.value)
                     ELSE IF u.observer = "UndoButton"
                       THEN UndoButton_update(w, u.aspect, u.value)
                     ELSE w,
                     log, i + 1)

\* BoardArea.get_position_from_pixels; NoSelection stands for None
get_position_from_pixels(b, x_coord, y_coord) ==
    LET pos_y == x_coord \div BOARD_RECTANGLE_SIZE
        pos_x == y_coord \div BOARD_RECTANGLE_SIZE
    IN  IF Has(b, <<pos_x, pos_y>>) THEN <<pos_x, pos_y>> ELSE NoSelection

\* the pixels of the clicks: the middle of each of the 7 rows and columns,
\* and the border of the canvas past the last one
Pixels == {BOARD_RECTANGLE_SIZE * k + 20 : k \in 0..6} \cup {283}

UIInit ==
    /\ board = GameWithUI.board
    /\ undo_stack = GameWithUI.stack
    /\ with_tracking = GameWithUI.with_tracking
    /\ notes = GameWithUI.notes
    /\ error = GameWithUI.error
    /\ op = "init"
    /\ result = <<>>
    /\ pushed = <<>>
    /\ observers = GameWithUI.observers
    /\ updates = GameWithUI.updates
    /\ args = <<>>
    /\ ui = UIBuilt

\* the state a handler of the UI leaves: the game as st, the widgets as w
\* after the calls of update() made
Handled(st, w, name) ==
    \E s \in {st} :
        /\ Return(s, name)
        /\ ui' = Observe(w, s.updates, 1)
        /\ UNCHANGED <<result, pushed, args>>

\* UISenku.open_ui up to the main loop
OpenUI ==
    /\ ~ui.opened
    /\ Handled(get_all_changes(Enter), [ui EXCEPT !.opened = TRUE], "open_ui")

\* left_button_pressed that clears the selection only when the move is made
left_button_pressed_clears_on_move(st, w, x, y, answer) ==
    LET pos == get_position_from_pixels(st.board, x, y)
    IN  IF pos = NoSelection THEN [game |-> st, ui |-> w]
        ELSE IF w.selection = NoSelection
        THEN [game |-> st, ui |-> [w EXCEPT !.selection = pos]]
        ELSE LET r == execute_ui(st, Move(w.selection, pos), answer)
             IN  [game |-> r,
                  ui   |-> IF r.notes # <<>>
                           THEN [w EXCEPT !.selection = NoSelection] ELSE w]

\* BoardArea.left_button_pressed for a click at the pixel (x, y): the game
\* and the widgets it leaves, before the calls of update() made are applied
\* to the widgets.  The selection is cleared after execute(), so it stays
\* if execute() raises.
left_button_pressed(st, w, x, y, answer) ==
    LET pos == get_position_from_pixels(st.board, x, y)
    IN  IF pos = NoSelection THEN [game |-> st, ui |-> w]
        ELSE IF w.selection = NoSelection
        THEN [game |-> st, ui |-> [w EXCEPT !.selection = pos]]
        ELSE LET r == execute_ui(st, Move(w.selection, pos), answer)
             IN  [game |-> r,
                  ui   |-> IF r.error = "none"
                           THEN [w EXCEPT !.selection = NoSelection] ELSE w]

\* a click at the pixel (x, y)
Click(x, y, answer) ==
    \E r \in {left_button_pressed(Enter, ui, x, y, answer)} :
        Handled(r.game, r.ui, "click")

\* a click with no position under the pixel
ClickOutside(x, y) ==
    /\ ui.opened
    /\ get_position_from_pixels(board, x, y) = NoSelection
    /\ Click(x, y, FALSE)

\* a click on a position, with no selection
ClickSelect(x, y) ==
    /\ ui.opened
    /\ get_position_from_pixels(board, x, y) # NoSelection
    /\ ui.selection = NoSelection
    /\ Click(x, y, FALSE)

\* a click on a position, with a selection: a move is attempted, and to the
\* dialog, shown when the move ends the game, the user gives the answer;
\* with no dialog there is no answer, FALSE here.  Jumps that pass both
\* checks are made as in Execute: any while fewer than MaxMoves pegs are
\* gone, those of DeadEndLine at any time.
ClickMove(x, y, answer) ==
    \E pos \in {get_position_from_pixels(board, x, y)} :
        /\ ui.opened
        /\ pos # NoSelection
        /\ ui.selection # NoSelection
        /\ Accepted(ui.selection, pos) =>
              (PegsRemoved < MaxMoves \/ <<ui.selection, pos>> \in DeadEndLine)
        /\ answer =>
              \E r \in {execute(Enter, Move(ui.selection, pos))} :
                  \E i \in 1..Len(r.notes) : r.notes[i].aspect = "GAME_OVER"
        /\ Click(x, y, answer)

\* the button of UndoButton, which calls UndoButton.undo unless disabled
ClickUndo ==
    /\ ui.opened
    /\ ui.button = "NORMAL"
    /\ Handled(undo(Enter), ui, "undo")

\* the button Nuevo, which calls UISenku.start
ClickStart ==
    /\ ui.opened
    /\ Handled(restart(Enter), ui, "start")

UINext ==
    \/ OpenUI
    \/ \E x, y \in Pixels : ClickOutside(x, y)
    \/ \E x, y \in Pixels : ClickSelect(x, y)
    \/ \E x, y \in Pixels, answer \in BOOLEAN : ClickMove(x, y, answer)
    \/ ClickUndo
    \/ ClickStart

UISpec == UIInit /\ [][UINext]_vars

----------------------------------------------------------------------------
(* The game as the specification words it, written without the code's      *)
(* check_distance, check_cells and avg.                                    *)

\* the 33 cells of the cross
CrossCells ==
    ({2, 3, 4} \X (0..6)) \cup ({0, 1, 5, 6} \X {2, 3, 4})

\* 32 cells occupied, the center empty
InitialLayout == [c \in CrossCells |-> c # <<3, 3>>]

Directions == {<<0, 1>>, <<0, -1>>, <<1, 0>>, <<-1, 0>>}

Step(c, dir, n) == <<c[1] + n * dir[1], c[2] + n * dir[2]>>

\* <<origin, midpoint, destination>> of every jump of two cells along one
\* axis between cells of the cross
JumpTriples ==
    {t \in {<<c, Step(c, dir, 1), Step(c, dir, 2)>> :
                c \in CrossCells, dir \in Directions} :
        t[2] \in CrossCells /\ t[3] \in CrossCells}

\* the pairs of cells that are not a jump
NoJumpPairs ==
    {q : q \in {p \in CrossCells \X CrossCells :
                    \A t \in JumpTriples : t[1] # p[1] \/ t[3] # p[2]}}

\* origin occupied, midpoint occupied, destination empty
LegalOccupancy(b, t) == b[t[1]] /\ b[t[2]] /\ ~b[t[3]]

HasLegalJump(b) == \E t \in JumpTriples : LegalOccupancy(b, t)

Pegs(b) == Cardinality({c \in DOMAIN b : b[c]})

Data == undo_stack.data

----------------------------------------------------------------------------
(* Claims *)

AfterLegalJump(r, t) ==
    /\ r.error = "none"
    /\ DOMAIN r.board = DOMAIN board
    /\ \A c \in DOMAIN board :
          r.board[c] = IF c = t[1] \/ c = t[2] THEN FALSE
                       ELSE IF c = t[3] THEN TRUE
                       ELSE board[c]
    /\ r.stack.data # <<>>
    /\ Last(r.stack.data) = [origin |-> t[1], mid |-> t[2], dest |-> t[3]]

\* C1: in every reachable state and for every jump between two of the 33
\* cells with legal distance and legal occupancy, execute() leaves origin and
\* midpoint empty and destination occupied, every other cell as it was, and
\* that move as the newest entry of the history.
C1_LegalMoveEffect ==
    \A t \in JumpTriples :
        LegalOccupancy(board, t) =>
            AfterLegalJump(execute(Enter, Move(t[1], t[3])), t)

\* a sixth move in a row was executed: the history was full, the oldest
\* entry was evicted
C1_Witness ==
    /\ op = "execute"
    /\ error = "none"
    /\ Len(notes) >= 4
    /\ Len(Data) = MAX_UNDO_ACTIONS
    /\ PegsRemoved = MAX_UNDO_ACTIONS + 1
    /\ ~board[Last(Data).origin] /\ ~board[Last(Data).mid] /\ board[Last(Data).dest]

\* C2: in every reachable state and for every pair of the 33 cells that
\* fails the distance check or the occupancy check, execute() changes
\* neither board nor history, emits no notification and raises no error.
C2_IllegalMoveNoOp ==
    /\ \A p \in NoJumpPairs : execute(Enter, Move(p[1], p[2])) = Enter
    /\ \A t \in JumpTriples :
          ~LegalOccupancy(board, t) => execute(Enter, Move(t[1], t[3])) = Enter
    /\ <<<<2, 2>>, <<4, 4>>>> \in NoJumpPairs

\* an attempt was rejected after moves were made
C2_Witness ==
    /\ op = "execute"
    /\ notes = <<>>
    /\ error = "none"
    /\ Data # <<>>

RoundTrip(r, wasFull) ==
    /\ r.error = "none"
    /\ r.board = board
    /\ ~wasFull => r.stack = undo_stack

ExecuteThenUndo(orig, dest) ==
    undo([execute(Enter, Move(orig, dest)) EXCEPT !.notes = <<>>])

\* C3: in every reachable state, a legal move followed at once by undo()
\* gives back the board as it was (and the history, unless the move evicted
\* an entry); from the fresh game, (1,3) -> (3,3) then undo() gives the
\* initial layout and an empty history.
C3_RoundTrip ==
    /\ \A t \in JumpTriples :
          LegalOccupancy(board, t) =>
              /\ execute(Enter, Move(t[1], t[3])).board # board
              /\ RoundTrip(ExecuteThenUndo(t[1], t[3]), is_full(undo_stack))
    /\ (board = InitialLayout /\ Data = <<>>) =>
          /\ execute(Enter, Move(<<1, 3>>, <<3, 3>>)).board[<<3, 3>>]
          /\ ExecuteThenUndo(<<1, 3>>, <<3, 3>>).board = InitialLayout
          /\ ExecuteThenUndo(<<1, 3>>, <<3, 3>>).stack.data = <<>>

\* (1,3) -> (3,3) was undone and the game is the fresh game again
C3_Witness ==
    /\ op = "undo"
    /\ error = "none"
    /\ board = InitialLayout
    /\ Data = <<>>
    /\ Len(notes) = 4
    /\ notes[1] = [aspect |-> "CELL_ON", value |-> <<1, 3>>]
    /\ notes[2] = [aspect |-> "CELL_ON", value |-> <<2, 3>>]
    /\ notes[3] = [aspect |-> "CELL_OFF", value |-> <<3, 3>>]

UndoFailed(r) ==
    /\ r.error = "IndexError"
    /\ r.board = board
    /\ r.stack = undo_stack
    /\ r.with_tracking = with_tracking
    /\ r.notes = <<>>

\* C4: undo() on an empty history raises the error of an empty pop and
\* leaves board, history and tracking flag unchanged, with no notification.
C4_UndoOnEmpty ==
    /\ Data = <<>> => UndoFailed(undo(Enter))
    /\ (op = "undo" /\ error # "none") =>
          error = "IndexError" /\ notes = <<>> /\ Data = <<>>

\* undo() failed in a game where moves had been made
C4_Witness ==
    /\ op = "undo"
    /\ error = "IndexError"
    /\ Data = <<>>
    /\ PegsRemoved > 0

\* C5: a stack of size N >= 1 never holds more than N items, and push always
\* succeeds and leaves the pushed item as the newest entry.
C5_LengthBound ==
    /\ undo_stack.size >= 1
    /\ Len(Data) <= undo_stack.size
    /\ \A elem \in 1..MaxItem :
          /\ Len(push(undo_stack, elem).data) <= undo_stack.size
          /\ Last(push(undo_stack, elem).data) = elem
    /\ op = "push" => (error = "none" /\ Data # <<>> /\ Last(Data) = Last(pushed))

\* an item was pushed on a full stack
C5_Witness ==
    /\ op = "push"
    /\ Len(Data) = undo_stack.size
    /\ Len(pushed) > undo_stack.size

LastN(s, n) == SubSeq(s, Len(s) - n + 1, Len(s))

\* C6: after pushing N+k items on an empty stack of size N, the stack holds
\* exactly the last N items pushed, oldest first; before that it holds all
\* of them.
C6_KeepsLastN ==
    /\ Len(pushed) <= undo_stack.size => Data = pushed
    /\ Len(pushed) > undo_stack.size => Data = LastN(pushed, undo_stack.size)

\* N+2 items were pushed on a stack of size N = 2
C6_Witness ==
    /\ op = "push"
    /\ undo_stack.size = 2
    /\ Len(pushed) = 4
    /\ pushed[3] # pushed[4]
    /\ Data = <<pushed[3], pushed[4]>>

\* C7: pop() of a stack that is not empty returns the newest item pushed and
\* not popped yet, and removes it alone: the rest keeps its order.
C7_PopLIFO ==
    [][(op' = "pop" /\ error' = "none") =>
          /\ Data # <<>>
          /\ result' = <<Last(pushed)>>
          /\ Len(undo_stack'.data) = Len(Data) - 1
          /\ undo_stack'.data = SubSeq(Data, 1, Len(Data) - 1)
          /\ undo_stack'.size = undo_stack.size]_vars

\* an item was popped from a stack that had evicted one and keeps another
C7_Witness ==
    /\ op = "pop"
    /\ error = "none"
    /\ result # <<>>
    /\ Len(Data) >= 1
    /\ Len(pushed) > Len(Data)
    /\ result[1] # Last(Data)

Restarted(r) ==
    /\ r.error = "none"
    /\ r.board = InitialLayout
    /\ r.stack.data = <<>>
    /\ HasLegalJump(r.board)

\* C8: from every reachable state restart() leaves the initial layout (32
\* cells occupied, the center empty) and an empty history, a game with a
\* legal move.
C8_Restart ==
    /\ Restarted(restart(Enter))
    /\ op = "restart" => (board = InitialLayout /\ Data = <<>> /\ error = "none")

\* the game was restarted
C8_Witness ==
    /\ op = "restart"
    /\ board = InitialLayout
    /\ Pegs(board) = 32
    /\ Data = <<>>
    /\ ~with_tracking

KeepsKeys(r) == DOMAIN r.board = CrossCells /\ r.error # "KeyError"

ExpectedEnd(b) ==
    IF HasLegalJump(b) THEN <<>>
    ELSE <<[aspect |-> "GAME_OVER", value |-> Pegs(b)]>>

EndChecked(r) ==
    /\ r.error = "none"
    /\ r.board = board
    /\ r.stack = undo_stack
    /\ r.notes = ExpectedEnd(board)

\* C10: on every board, check_end emits GAME_OVER(n) exactly when no jump
\* between two cells has legal distance and legal occupancy, n is then the
\* number of occupied cells, nothing is emitted otherwise, and board and
\* history are unchanged.
C10_CheckEnd ==
    /\ EndChecked(check_end(Enter))
    /\ op = "check_end" => (notes = ExpectedEnd(board) /\ error = "none")

\* check_end found two pegs that cannot move
C10_Witness ==
    /\ op = "check_end"
    /\ notes = <<[aspect |-> "GAME_OVER", value |-> 2]>>
    /\ Pegs(board) = 2

NoGameOver(r) ==
    /\ r.error = "none"
    /\ \A i \in 1..Len(r.notes) : r.notes[i].aspect # "GAME_OVER"

\* C11: check_end on the initial layout (32 cells occupied, the center
\* empty) emits no GAME_OVER: it emits nothing and raises nothing, whatever
\* the tracking flag and the history are.
C11_InitialNoGameOver ==
    /\ board = InitialLayout =>
          NoGameOver(check_end(Enter)) /\ check_end(Enter).notes = <<>>
    /\ (op = "check_end" /\ board = InitialLayout) =>
          (notes = <<>> /\ error = "none")

\* check_end was called on the initial layout
C11_Witness ==
    /\ op = "check_end"
    /\ board = InitialLayout
    /\ Pegs(board) = 32
    /\ ~board[<<3, 3>>]
    /\ notes = <<>>

\* C12: on a board of the 33 cells with exactly one occupied cell, the
\* center or any other, check_end emits GAME_OVER(1) and nothing else, with
\* tracking on (and off: check_end does not read the flag).
C12_OnePegGameOver ==
    /\ (DOMAIN board = CrossCells /\ Pegs(board) = 1) =>
          /\ check_end(Enter).error = "none"
          /\ check_end(Enter).notes = <<[aspect |-> "GAME_OVER", value |-> 1]>>
    /\ (op = "check_end" /\ Pegs(board) = 1) =>
          notes = <<[aspect |-> "GAME_OVER", value |-> 1]>>

\* check_end was called, tracking on, on the board whose only peg is (3,3)
C12_Witness ==
    /\ op = "check_end"
    /\ with_tracking
    /\ board = [c \in CrossCells |-> c = <<3, 3>>]
    /\ notes = <<[aspect |-> "GAME_OVER", value |-> 1]>>

GameOverAt(log) == {i \in 1..Len(log) : log[i].aspect = "GAME_OVER"}

\* C13 as claimed: no GAME_OVER is delivered while the tracking flag is
\* false or while some legal move exists on the board.
C13_AsClaimed ==
    GameOverAt(notes) # {} => (with_tracking /\ ~HasLegalJump(board))

\* C13, amended: no GAME_OVER is delivered while some legal move exists on
\* the board; execute() delivers one only with the tracking flag on; undo,
\* restart, set_tracking and get_all_changes deliver none; check_end called
\* directly does not read the flag.
C13_GameOverOnlyAtDeadEnd ==
    /\ GameOverAt(notes) # {} =>
          /\ ~HasLegalJump(board)
          /\ GameOverAt(notes) = {Len(notes)}
          /\ op = "check_end" \/ (op = "execute" /\ with_tracking)
    /\ \A t \in JumpTriples :
          LET r == execute(Enter, Move(t[1], t[3]))
          IN  GameOverAt(r.notes) # {} =>
                  (with_tracking /\ ~HasLegalJump(r.board))
    /\ GameOverAt(undo(Enter).notes) = {}
    /\ GameOverAt(restart(Enter).notes) = {}
    /\ GameOverAt(get_all_changes(Enter).notes) = {}
    /\ \A track \in BOOLEAN : set_tracking(Enter, track).notes = <<>>
    /\ GameOverAt(check_end(Enter).notes) # {} => ~HasLegalJump(board)

\* with tracking off, a move was executed that left no legal move and no
\* GAME_OVER was delivered
C13_Witness ==
    /\ op = "execute"
    /\ error = "none"
    /\ ~with_tracking
    /\ ~HasLegalJump(board)
    /\ Len(notes) = 4
    /\ GameOverAt(notes) = {}

LegalMoves(b) == {t \in JumpTriples : LegalOccupancy(b, t)}

\* C14 as claimed: with a history that is not empty, the number of legal
\* moves on the board after undo() is at least the number before it.
C14_AsClaimed ==
    Data # <<>> =>
        Cardinality(LegalMoves(undo(Enter).board)) >= Cardinality(LegalMoves(board))

TripleOf(m) == <<m.origin, m.mid, m.dest>>

\* C14, amended: with a history that is not empty, undo() leaves a board
\* with at least one legal move, the move it has just undone, so that
\* check_end would emit nothing on it.
C14_UndoLeavesAMove ==
    /\ Data # <<>> =>
          /\ undo(Enter).error = "none"
          /\ TripleOf(Last(Data)) \in LegalMoves(undo(Enter).board)
          /\ check_end(undo(Enter)).notes = undo(Enter).notes
    /\ (op = "undo" /\ error = "none") => HasLegalJump(board)

\* the board before the last undo(), from the cells it notified
BeforeUndo ==
    [c \in DOMAIN board |->
        IF c = notes[1].value \/ c = notes[2].value THEN FALSE
        ELSE IF c = notes[3].value THEN TRUE
        ELSE board[c]]

\* a move was undone and the board has fewer legal moves than before
C14_Witness ==
    /\ op = "undo"
    /\ error = "none"
    /\ Len(notes) = 4
    /\ LegalMoves(board) # {}
    /\ Cardinality(LegalMoves(board)) < Cardinality(LegalMoves(BeforeUndo))

Note(aspect, value) == [aspect |-> aspect, value |-> value]

\* what a successful move of the triple t that leaves the board b and the
\* history h has to deliver, tracking being on or off
MoveNotes(t, b, h, tracking) ==
    << Note("CELL_OFF", t[1]), Note("CELL_ON", t[3]), Note("CELL_OFF", t[2]),
       Note("UNDO_STACK", h) >>
    \o (IF tracking /\ ~HasLegalJump(b)
        THEN <<Note("GAME_OVER", Pegs(b))>> ELSE <<>>)

\* C15: a successful execute() delivers, in this order and nothing else,
\* CELL_OFF(origin), CELL_ON(destination), CELL_OFF(midpoint), UNDO_STACK
\* with the history that already holds the new move as its newest entry,
\* and then GAME_OVER exactly when tracking is on and no legal move remains.
C15_MoveNotificationOrder ==
    /\ \A t \in JumpTriples :
          LegalOccupancy(board, t) =>
              LET r == execute(Enter, Move(t[1], t[3]))
              IN  /\ r.notes = MoveNotes(t, r.board, r.stack.data, with_tracking)
                  /\ TripleOf(Last(r.notes[4].value)) = t
    /\ (op = "execute" /\ notes # <<>>) =>
          /\ Data # <<>>
          /\ notes = MoveNotes(TripleOf(Last(Data)), board, Data, with_tracking)

\* the move (3,0) -> (3,2) was executed with tracking on and left no legal
\* move: five notifications, the last one GAME_OVER(26)
C15_Witness ==
    /\ op = "execute"
    /\ with_tracking
    /\ notes = << Note("CELL_OFF", <<3, 0>>), Note("CELL_ON", <<3, 2>>),
                  Note("CELL_OFF", <<3, 1>>), Note("UNDO_STACK", Data),
                  Note("GAME_OVER", 26) >>
    /\ Last(Data) = Move(<<3, 0>>, <<3, 2>>)

\* what undoing the move m has to deliver, h being the history it leaves
UndoNotes(m, h) ==
    << Note("CELL_ON", m.origin), Note("CELL_ON", m.mid),
       Note("CELL_OFF", m.dest), Note("UNDO_STACK", h) >>

\* C16: a successful undo() delivers, in this order and nothing else,
\* CELL_ON(origin), CELL_ON(midpoint), CELL_OFF(destination) of the move it
\* pops, then one UNDO_STACK with the history as it is after the pop.
C16_UndoNotificationOrder ==
    /\ Data # <<>> =>
          /\ undo(Enter).notes = UndoNotes(Last(Data), Front(Data))
          /\ undo(Enter).stack.data = Front(Data)
    /\ (op = "undo" /\ error = "none") =>
          /\ Len(notes) = 4
          /\ notes[1].aspect = "CELL_ON" /\ board[notes[1].value]
          /\ notes[2].aspect = "CELL_ON" /\ board[notes[2].value]
          /\ notes[3].aspect = "CELL_OFF" /\ ~board[notes[3].value]
          /\ <<notes[1].value, notes[2].value, notes[3].value>> \in JumpTriples
          /\ notes[4] = Note("UNDO_STACK", Data)

\* the sixth move in a row was undone: the history had evicted its oldest
\* entry and now holds four
C16_Witness ==
    /\ op = "undo"
    /\ error = "none"
    /\ PegsRemoved = MAX_UNDO_ACTIONS
    /\ Len(Data) = MAX_UNDO_ACTIONS - 1
    /\ notes[4] = Note("UNDO_STACK", Data)
    /\ notes[3].aspect = "CELL_OFF"

\* the places of the log that are a cell notification for the cell c
CellNotesFor(log, c) ==
    {i \in 1..Len(log) : log[i].aspect \in {"CELL_ON", "CELL_OFF"} /\ log[i].value = c}

Replayed(r) ==
    /\ r.error = "none"
    /\ r.board = board
    /\ r.stack = undo_stack
    /\ r.with_tracking = with_tracking
    /\ Len(r.notes) = 34
    /\ {i \in 1..Len(r.notes) : r.notes[i].aspect = "UNDO_STACK"} = {1}
    /\ r.notes[1].value = Data
    /\ \A c \in CrossCells :
          /\ Cardinality(CellNotesFor(r.notes, c)) = 1
          /\ \A i \in CellNotesFor(r.notes, c) :
                r.notes[i].aspect = IF board[c] THEN "CELL_ON" ELSE "CELL_OFF"

\* C17: in every reachable state get_all_changes() raises nothing, changes
\* neither board, history nor tracking flag, and delivers 34 notifications:
\* one UNDO_STACK with the history, and for each of the 33 cells exactly one
\* cell notification, CELL_ON if the cell is occupied and CELL_OFF if not.
C17_ReplayAllState ==
    /\ Replayed(get_all_changes(Enter))
    /\ op = "get_all_changes" =>
          Replayed([board |-> board, stack |-> undo_stack,
                    with_tracking |-> with_tracking, notes |-> notes,
                    error |-> error])

\* get_all_changes() was called in the middle of a game, tracking off
C17_Witness ==
    /\ op = "get_all_changes"
    /\ Len(notes) = 34
    /\ PegsRemoved >= 3
    /\ Len(Data) >= 2
    /\ ~with_tracking
    /\ HasLegalJump(board)

\* C18 as claimed: fill_cell or empty_cell with a coordinate outside the 33
\* cells ends with an error and leaves the key set and the occupancies of
\* the board as they were; so the board never has a key outside the cross,
\* and a call that ended without error was for one of the 33 cells.
C18_AsClaimed ==
    /\ DOMAIN board \subseteq CrossCells
    /\ (op \in {"fill_cell", "empty_cell"} /\ error = "none") =>
          notes[1].value \in CrossCells

\* undo() called until the history is empty
RECURSIVE UndoAll(_)
UndoAll(st) ==
    IF st.stack.data = <<>> \/ st.error # "none" THEN st ELSE UndoAll(undo(st))

\* C19: with a history of capacity above 32, every move takes one peg off
\* a board that starts with 32 and needs two pegs for a move, so that at
\* most 31 moves are made in a row; the history holds every move made since
\* the initial layout and not undone, none was evicted, and undo() repeated
\* until the history is empty gives back the initial layout.
C19_AtMost31Moves ==
    /\ undo_stack.size > 32
    /\ Pegs(board) >= 1
    /\ Len(Data) + Pegs(board) = 32
    /\ Len(Data) <= 31
    /\ \A t \in JumpTriples :
          LegalOccupancy(board, t) =>
              /\ Pegs(board) >= 2
              /\ Pegs(execute(Enter, Move(t[1], t[3])).board) = Pegs(board) - 1
              /\ Len(execute(Enter, Move(t[1], t[3])).stack.data) = Len(Data) + 1
    /\ UndoAll(Enter).error = "none"
    /\ UndoAll(Enter).board = InitialLayout
    /\ UndoAll(Enter).stack.data = <<>>

\* the 31st move in a row was made: one peg is left and the history holds
\* the 31 moves, the first one made still the oldest
C19_Witness ==
    /\ op = "execute"
    /\ Pegs(board) = 1
    /\ Len(Data) = 31
    /\ Data[1] = Move(<<1, 3>>, <<3, 3>>)
    /\ notes[5] = Note("GAME_OVER", 1)

AllAspects == {"all", "CELL_ON", "CELL_OFF", "UNDO_STACK", "GAME_OVER"}

\* the observers registered for an aspect, in the order they were added
Registered(obs, aspect) == IF Has(obs, aspect) THEN obs[aspect] ELSE <<>>

\* the calls of update() that deliver the notifications of log, from the
\* place i on, to the observers registered in obs: for each notification
\* the observers of its aspect, then those of "all"
RECURSIVE DeliveriesFrom(_, _, _)
DeliveriesFrom(log, obs, i) ==
    IF i > Len(log) THEN <<>>
    ELSE LET to == Registered(obs, log[i].aspect) \o Registered(obs, "all")
         IN  [j \in 1..Len(to) |->
                 [observer |-> to[j], aspect |-> log[i].aspect,
                  value |-> log[i].value]]
             \o DeliveriesFrom(log, obs, i + 1)

Quiet(st) == [st EXCEPT !.notes = <<>>, !.updates = <<>>]

\* C20: restart() leaves the observers registered for each aspect and for
\* "all" as they were, so that the observers registered before it are
\* delivered every notification of their aspects that restart() emits (35)
\* and that the next operations emit; it leaves the tracking flag and the
\* capacity of the history as they were too.
C20_RestartKeepsObservers ==
    LET r  == restart(Enter)
        r2 == get_all_changes(Quiet(r))
        r3 == execute(Quiet(r), Move(<<1, 3>>, <<3, 3>>))
    IN  /\ r.error = "none"
        /\ DOMAIN observers \subseteq DOMAIN r.observers
        /\ DOMAIN r.observers \subseteq AllAspects
        /\ \A a \in AllAspects :
              Registered(r.observers, a) = Registered(observers, a)
        /\ r.with_tracking = with_tracking
        /\ r.stack.size = undo_stack.size
        /\ Len(r.notes) = 35
        /\ r.updates = DeliveriesFrom(r.notes, observers, 1)
        /\ Len(r2.notes) = 34
        /\ r2.updates = DeliveriesFrom(r2.notes, observers, 1)
        /\ Len(r3.notes) = 4
        /\ r3.updates = DeliveriesFrom(r3.notes, observers, 1)

\* the game was restarted, tracking off, with an observer of all aspects
\* and an observer of UNDO_STACK: 35 and 1 calls of update()
C20_Witness ==
    /\ op = "restart"
    /\ ~with_tracking
    /\ Registered(observers, "all") = <<"o1">>
    /\ Registered(observers, "UNDO_STACK") = <<"o2">>
    /\ Len(updates) = 36
    /\ updates[36] = [observer |-> "o1", aspect |-> "UNDO_STACK", value |-> <<>>]
    /\ updates[35].observer = "o2"

\* the legal jumps of the board that leave no legal jump
LastJumps ==
    {t \in JumpTriples :
        /\ LegalOccupancy(board, t)
        /\ ~HasLegalJump(execute(Enter, Move(t[1], t[3])).board)}

\* C21: set_tracking(track) changes the tracking flag and nothing else and
\* notifies nothing; after set_tracking(FALSE) no successful execute()
\* emits GAME_OVER, not even one that leaves no legal move; after
\* set_tracking(TRUE) a successful execute() that leaves no legal move emits
\* GAME_OVER, as its last notification.
C21_SetTracking ==
    /\ \A track \in BOOLEAN :
          /\ set_tracking(Enter, track) = [Enter EXCEPT !.with_tracking = track]
          /\ set_tracking(Enter, track).with_tracking = track
    /\ \A t \in JumpTriples :
          LegalOccupancy(board, t) =>
              LET off == execute(set_tracking(Enter, FALSE), Move(t[1], t[3]))
                  on  == execute(set_tracking(Enter, TRUE), Move(t[1], t[3]))
              IN  /\ off.board = on.board /\ off.stack = on.stack
                  /\ GameOverAt(off.notes) = {}
                  /\ Len(off.notes) = 4
                  /\ IF HasLegalJump(on.board)
                     THEN on.notes = off.notes
                     ELSE /\ GameOverAt(on.notes) = {5}
                          /\ on.notes[5].value = Pegs(on.board)
    /\ op = "set_tracking" => (notes = <<>> /\ updates = <<>> /\ error = "none")

\* tracking was set off, in a game with moves made, on a board with a
\* legal jump that leaves none
C21_Witness ==
    /\ op = "set_tracking"
    /\ ~with_tracking
    /\ Data # <<>>
    /\ LastJumps # {}

\* dest is two cells away from orig along one axis
JumpDistance(orig, dest) == \E dir \in Directions : dest = Step(orig, dir, 2)

\* the number of cells from orig to dest, along the axis where it is larger
Reach(orig, dest) ==
    LET dx == IF orig[1] > dest[1] THEN orig[1] - dest[1] ELSE dest[1] - orig[1]
        dy == IF orig[2] > dest[2] THEN orig[2] - dest[2] ELSE dest[2] - orig[2]
    IN  IF dx > dy THEN dx ELSE dy

\* C22: for every pair of coordinates of [0,6] x [0,6], check_distance is
\* true exactly when one axis differs by 2 and the other is equal: false
\* for the same cell twice, for neighbours, for pairs that differ on both
\* axes and for jumps longer than 2; and it gives the same for (orig, dest)
\* and (dest, orig).
C22_LegalDistance ==
    op = "check_distance" =>
        /\ result = <<JumpDistance(args[1], args[2])>>
        /\ check_distance(args[2], args[1]) = result[1]
        /\ Reach(args[1], args[2]) # 2 => ~result[1]
        /\ (args[1][1] # args[2][1] /\ args[1][2] # args[2][2]) => ~result[1]
        /\ result[1] => args[1] # args[2]

\* check_distance was called with (3,1) and (3,3), and returned True
C22_Witness ==
    /\ op = "check_distance"
    /\ args = << <<3, 1>>, <<3, 3>> >>
    /\ result = <<TRUE>>

\* t is the jump from orig to dest, its midpoint the average of the two
JumpOf(t, orig, dest) ==
    /\ t[1] = orig /\ t[3] = dest
    /\ 2 * t[2][1] = orig[1] + dest[1]
    /\ 2 * t[2][2] = orig[2] + dest[2]

\* C23: for every pair of cells at the distance of a jump and every
\* occupancy of the board, check_cells raises nothing and is true exactly
\* when the origin is occupied, the destination empty and the midpoint,
\* the average of origin and destination, occupied.
C23_LegalOccupancy ==
    op = "check_cells" =>
        /\ error = "none"
        /\ \E t \in JumpTriples :
              /\ JumpOf(t, args[1], args[2])
              /\ result = <<board[t[1]] /\ ~board[t[3]] /\ board[t[2]]>>

\* check_cells was called for (3,1) -> (3,3) on the board where only (3,1)
\* and (3,2) are occupied, and returned True
C23_Witness ==
    /\ op = "check_cells"
    /\ args = << <<3, 1>>, <<3, 3>> >>
    /\ Pegs(board) = 2
    /\ board[<<3, 1>>] /\ board[<<3, 2>>]
    /\ result = <<TRUE>>

Constructed(b, stack, tracking) ==
    /\ DOMAIN b = CrossCells
    /\ Cardinality({c \in CrossCells : b[c]}) = 32
    /\ ~b[<<3, 3>>]
    /\ stack.data = <<>>
    /\ is_empty(stack)
    /\ stack.size = 5
    /\ tracking

\* C24: right after construction the board has the 33 cells, 32 of them
\* occupied and the center (3,3) empty, the history is empty and of
\* capacity 5, and tracking is on; so it is when the user interface has
\* registered its observers.
C24_Constructed ==
    /\ Constructed(NewGame.board, NewGame.stack, NewGame.with_tracking)
    /\ NewGame.error = "none"
    /\ op = "init" =>
          (Constructed(board, undo_stack, with_tracking) /\ error = "none")

\* the game as it is constructed
C24_Witness ==
    /\ op = "init"
    /\ board = NewGame.board
    /\ board = InitialLayout
    /\ undo_stack = [data |-> <<>>, size |-> 5]
    /\ with_tracking

\* what a stack of size n built and pushed a then b holds
FreshAfter(n, a, b) == IF n = 1 THEN <<b>> ELSE <<a, b>>

\* C25: make_empty() of a stack in any state leaves it empty and of the
\* same size: is_empty is true, pop raises, and pushes give what they give
\* on a stack just built; is_empty is true exactly when there are 0 items.
C25_MakeEmpty ==
    LET e == make_empty(undo_stack)
    IN  /\ is_empty(e)
        /\ Len(e.data) = 0
        /\ e.size = undo_stack.size
        /\ pop_raises(e)
        /\ \A a, b \in 1..MaxItem :
              /\ push(e, a).data = <<a>>
              /\ push(push(e, a), b).data = FreshAfter(undo_stack.size, a, b)
              /\ push(e, a) = push(NewStack(undo_stack.size), a)
        /\ is_empty(undo_stack) <=> Len(Data) = 0
        /\ op = "make_empty" => (Data = <<>> /\ error = "none")
        /\ (op = "push" /\ Len(pushed) = 1) => Data = pushed

\* make_empty() was called on a stack of size 3
C25_Witness ==
    /\ op = "make_empty"
    /\ undo_stack = [data |-> <<>>, size |-> 3]
    /\ is_empty(undo_stack)
    /\ pushed = <<>>

\* the places of the log with one of the aspects
NotesOf(log, aspects) == {i \in 1..Len(log) : log[i].aspect \in aspects}

\* C26: undo() delivers no GAME_OVER, to nobody, whether tracking is on or
\* off and whatever the board is, and what it delivers does not depend on
\* the flag; with a history that is not empty it delivers exactly three
\* cell notifications and one UNDO_STACK, with an empty one nothing.
C26_UndoNeverEndsGame ==
    /\ \A f \in BOOLEAN :
          LET r == undo([Enter EXCEPT !.with_tracking = f])
          IN  /\ NotesOf(r.notes, {"GAME_OVER"}) = {}
              /\ NotesOf(r.updates, {"GAME_OVER"}) = {}
              /\ r.with_tracking = f
              /\ r.notes = undo(Enter).notes
              /\ IF Data = <<>> THEN r.notes = <<>>
                 ELSE /\ Cardinality(NotesOf(r.notes, {"CELL_ON", "CELL_OFF"})) = 3
                      /\ Cardinality(NotesOf(r.notes, {"UNDO_STACK"})) = 1
                      /\ Len(r.notes) = 4
    /\ op = "undo" =>
          /\ NotesOf(notes, {"GAME_OVER"}) = {}
          /\ NotesOf(updates, {"GAME_OVER"}) = {}

\* with tracking on, a move was undone on a board that had no legal move
C26_Witness ==
    /\ op = "undo"
    /\ error = "none"
    /\ with_tracking
    /\ ~HasLegalJump(BeforeUndo)
    /\ Cardinality(NotesOf(notes, {"CELL_ON", "CELL_OFF"})) = 3
    /\ Cardinality(NotesOf(notes, {"UNDO_STACK"})) = 1

\* C27: after every successful undo() the move it undid can be made again:
\* its origin and midpoint are occupied and its destination is empty, so
\* the board has a legal move; making that move again gives the board and
\* the newest history entry there were before the undo.
C27_UndoneMoveIsLegalAgain ==
    /\ Data # <<>> =>
          LET m == Last(Data)
              r == undo(Enter)
              again == execute(Quiet(r), Move(m.origin, m.dest))
          IN  /\ r.error = "none"
              /\ r.board[m.origin] /\ r.board[m.mid] /\ ~r.board[m.dest]
              /\ HasLegalJump(r.board)
              /\ again.error = "none"
              /\ again.board = board
              /\ Last(again.stack.data) = m
    /\ (op = "undo" /\ error = "none") =>
          /\ board[notes[1].value] /\ board[notes[2].value] /\ ~board[notes[3].value]
          /\ notes[2].value = avg(notes[1].value, notes[3].value)
          /\ execute(Enter, Move(notes[1].value, notes[3].value)).board = BeforeUndo

\* the move (3,0) -> (3,2), which had ended the game, was undone
C27_Witness ==
    /\ op = "undo"
    /\ error = "none"
    /\ ~HasLegalJump(BeforeUndo)
    /\ LegalOccupancy(board, <<(<<3, 0>>), (<<3, 1>>), (<<3, 2>>)>>)
    /\ notes[1].value = <<3, 0>>

Min(a, b) == IF a <= b THEN a ELSE b

\* C28: a successful execute() leaves one occupied cell fewer and a
\* successful undo() one more; the board always has between 1 and 32
\* occupied cells, and the history holds no more moves than its capacity
\* nor than the number of pegs taken off the initial 32.
C28_PegCount ==
    /\ Pegs(board) >= 1
    /\ Pegs(board) <= 32
    /\ Len(Data) <= Min(undo_stack.size, 32 - Pegs(board))
    /\ \A t \in JumpTriples :
          LegalOccupancy(board, t) =>
              Pegs(execute(Enter, Move(t[1], t[3])).board) = Pegs(board) - 1
    /\ Data # <<>> => Pegs(undo(Enter).board) = Pegs(board) + 1
    /\ Data = <<>> => Pegs(undo(Enter).board) = Pegs(board)
    /\ (op = "execute" /\ notes # <<>>) => Pegs(board) <= 31
    /\ (op = "undo" /\ error = "none") => Pegs(board) = Pegs(BeforeUndo) + 1

\* the sixth move in a row was undone: 27 pegs, and a history of four
\* moves, fewer than its capacity and than the five pegs taken off
C28_Witness ==
    /\ op = "undo"
    /\ error = "none"
    /\ Pegs(BeforeUndo) = 26
    /\ Pegs(board) = 27
    /\ Len(Data) = 4
    /\ Len(Data) < Min(undo_stack.size, 32 - Pegs(board))

\* the board after the jump j = <<origin, destination>> on the board b
Jumped(b, j) ==
    [c \in DOMAIN b |->
        IF c = j[2] THEN TRUE
        ELSE IF c = j[1] THEN FALSE
        ELSE IF 2 * c[1] = j[1][1] + j[2][1] /\ 2 * c[2] = j[1][2] + j[2][2]
             THEN FALSE
        ELSE b[c]]

\* the board after the first n of the moves, from the initial layout
RECURSIVE BoardAfter(_, _)
BoardAfter(moves, n) ==
    IF n = 0 THEN InitialLayout
    ELSE Jumped(BoardAfter(moves, n - 1), moves[n].jump)

\* C29: the history holds the newest of the moves made and not undone, and
\* after more than MAX_UNDO_ACTIONS successful moves in a row it holds
\* exactly MAX_UNDO_ACTIONS: undo() repeated succeeds that many times and
\* leaves an empty history and the board as it was right after the k-th
\* move of the row, k being the moves beyond MAX_UNDO_ACTIONS, which is not
\* the initial layout; one more undo() raises and changes nothing.
C29_BoundedUndoDepth ==
    /\ board = BoardAfter(pushed, Len(pushed))
    /\ Len(Data) <= Len(pushed)
    /\ \A i \in 1..Len(Data) :
          <<Data[i].origin, Data[i].dest>>
              = pushed[Len(pushed) - Len(Data) + i].jump
    /\ InARow > MAX_UNDO_ACTIONS =>
          LET all  == UndoAll(Enter)
              more == undo(Quiet(all))
          IN  /\ Len(Data) = MAX_UNDO_ACTIONS
              /\ all.error = "none"
              /\ all.stack.data = <<>>
              /\ Pegs(all.board) = Pegs(board) + MAX_UNDO_ACTIONS
              /\ all.board = BoardAfter(pushed, Len(pushed) - MAX_UNDO_ACTIONS)
              /\ all.board # InitialLayout
              /\ more.error = "IndexError"
              /\ more.board = all.board
              /\ more.notes = <<>>
    /\ (op = "undo" /\ error = "IndexError") =>
          (Data = <<>> /\ notes = <<>>)

\* seven moves were made in a row and five of them undone; the sixth undo()
\* has raised, and the board is the one after the second move
C29_Witness ==
    /\ op = "undo"
    /\ error = "IndexError"
    /\ Data = <<>>
    /\ Len(pushed) = 2
    /\ pushed[1].row = 1 /\ pushed[2].row = 2
    /\ board = BoardAfter(pushed, 2)
    /\ board # InitialLayout

\* C30: every move in the history has its origin, midpoint and destination
\* among the 33 cells, in a line and two apart; for the newest one the
\* board has the origin and the midpoint empty and the destination
\* occupied, so that undo() changes the occupancy of exactly these three
\* cells and leaves every other cell, and the keys of the board, alone.
C30_StoredMovesAreJumps ==
    /\ \A i \in 1..Len(Data) :
          /\ {Data[i].origin, Data[i].mid, Data[i].dest} \subseteq CrossCells
          /\ TripleOf(Data[i]) \in JumpTriples
          /\ JumpDistance(Data[i].origin, Data[i].dest)
    /\ Data # <<>> =>
          LET m == Last(Data)
              r == undo(Enter)
          IN  /\ ~board[m.origin] /\ ~board[m.mid] /\ board[m.dest]
              /\ DOMAIN r.board = DOMAIN board
              /\ {c \in DOMAIN board : r.board[c] # board[c]}
                    = {m.origin, m.mid, m.dest}

\* a move was undone and three are left in the history: the newest of them
\* is the third move made, and the board is as that move left it
C30_Witness ==
    /\ op = "undo"
    /\ error = "none"
    /\ Len(Data) = 3
    /\ PegsRemoved = 3
    /\ ~board[Last(Data).origin] /\ ~board[Last(Data).mid]
    /\ board[Last(Data).dest]

\* C31: when only Move.execute is called and a jump that passes both
\* checks is made as long as there is one, every jump made takes one peg
\* off the 32, at most 31 jumps are made, and the game comes to a board
\* with no legal move and stays there.
C31_PlayTerminates ==
    /\ [](Len(pushed) + Pegs(board) = 32)
    /\ [](Len(pushed) <= 31)
    /\ <>[](~HasLegalJump(board))

\* the 31st jump was made: one peg is left and no jump
C31_Witness ==
    /\ op = "execute"
    /\ Len(pushed) = 31
    /\ Pegs(board) = 1
    /\ ~HasLegalJump(board)
    /\ notes # <<>>

\* execute() for the pair p changes nothing in st and notifies nothing
Refused(st, p) ==
    LET r == execute(st, Move(p[1], p[2]))
    IN  /\ r.error = "none"
        /\ r.board = st.board
        /\ r.stack = st.stack
        /\ r.notes = <<>>
        /\ r.updates = <<>>

\* C32: with tracking on, an execute() that makes a move and leaves no
\* legal move notifies GAME_OVER exactly once, delivered once; on a board
\* with no legal move every execute() between cells of the board changes
\* nothing and notifies nothing, so that GAME_OVER is not notified again by
\* a move before an undo() or a restart().
C32_GameOverOnce ==
    /\ \A t \in JumpTriples :
          LegalOccupancy(board, t) =>
              LET r == execute([Enter EXCEPT !.with_tracking = TRUE],
                               Move(t[1], t[3]))
              IN  ~HasLegalJump(r.board) =>
                      /\ Cardinality(NotesOf(r.notes, {"GAME_OVER"})) = 1
                      /\ Cardinality(NotesOf(r.updates, {"GAME_OVER"})) = 1
                      /\ \A p \in CellJumps \cup NoJumps : Refused(Quiet(r), p)
    /\ ~HasLegalJump(board) =>
          \A p \in CellJumps \cup NoJumps : Refused(Enter, p)
    /\ (op = "execute" /\ ~HasLegalJump(board)) =>
          Cardinality(NotesOf(notes, {"GAME_OVER"}))
              = IF with_tracking /\ notes # <<>> THEN 1 ELSE 0

\* with tracking on, a move was attempted on a board with no legal move:
\* nothing was notified
C32_Witness ==
    /\ op = "execute"
    /\ with_tracking
    /\ ~HasLegalJump(board)
    /\ notes = <<>>
    /\ error = "none"
    /\ Len(Data) = MAX_UNDO_ACTIONS

\* C33: for two of the 33 cells at the distance of a jump, the midpoint
\* avg computes is one of the 33 cells, the one half way; so check_cells
\* for the pair, execute() for the pair and the scan of check_end on a
\* board of the 33 cells look up keys of the board only and raise nothing.
C33_MidpointOnBoard ==
    /\ {args[1], args[2]} \subseteq CrossCells
    /\ JumpDistance(args[1], args[2])
    /\ avg(args[1], args[2]) \in CrossCells
    /\ \E dir \in Directions :
          /\ avg(args[1], args[2]) = Step(args[1], dir, 1)
          /\ args[2] = Step(args[1], dir, 2)
    /\ DOMAIN board = CrossCells
    /\ ~check_cells_raises(board, args[1], args[2])
    /\ ~check_end_raises(board)
    /\ check_end(Enter).error = "none"
    /\ execute(Enter, Move(args[1], args[2])).error = "none"
    /\ op = "check_cells" => (error = "none" /\ result # <<>>)

\* check_cells was called for the jump from (2,0), at the end of an arm, to
\* (2,2), and returned
C33_Witness ==
    /\ op = "check_cells"
    /\ args = << <<2, 0>>, <<2, 2>> >>
    /\ avg(args[1], args[2]) = <<2, 1>>
    /\ error = "none"
    /\ result # <<>>

\* the notifications of a restart: 33 times CELL_ON, once for each cell of
\* the cross, then CELL_OFF for the center, then UNDO_STACK with no move
RestartNotes(log) ==
    /\ Len(log) = 35
    /\ \A i \in 1..33 : log[i].aspect = "CELL_ON"
    /\ \A c \in CrossCells :
          Cardinality({i \in 1..33 : log[i].value = c}) = 1
    /\ log[34] = Note("CELL_OFF", <<3, 3>>)
    /\ log[35] = Note("UNDO_STACK", <<>>)
    /\ NotesOf(log, {"GAME_OVER"}) = {}

\* C34: restart() notifies, in this order and nothing else, CELL_ON 33
\* times, once for each cell, the center included, then CELL_OFF for the
\* center (3,3), then UNDO_STACK once with a history that is already
\* empty; it never notifies GAME_OVER, whatever the board and the tracking
\* flag were.
C34_RestartNotifications ==
    /\ \A f \in BOOLEAN :
          RestartNotes(restart([Enter EXCEPT !.with_tracking = f]).notes)
    /\ NotesOf(restart(Enter).updates, {"GAME_OVER"}) = {}
    /\ op = "restart" => RestartNotes(notes)

\* the game was restarted: 35 notifications, the center filled first and
\* emptied at the end
C34_Witness ==
    /\ op = "restart"
    /\ Len(notes) = 35
    /\ \E i \in 1..33 : notes[i] = Note("CELL_ON", <<3, 3>>)
    /\ notes[34] = Note("CELL_OFF", <<3, 3>>)
    /\ notes[35].aspect = "UNDO_STACK"
    /\ with_tracking

\* the value of the last entry of the log with the aspect
LastValue(log, aspect) ==
    log[CHOOSE i \in NotesOf(log, {aspect}) :
            \A j \in NotesOf(log, {aspect}) : j <= i].value

\* two logs of notifications or of deliveries are the same, aspect by
\* aspect and then value by value
SameLog(a, b) ==
    /\ Len(a) = Len(b)
    /\ \A i \in 1..Len(a) : a[i].aspect = b[i].aspect
    /\ \A i \in 1..Len(a) : a[i] = b[i]

\* two outcomes of an operation are the same
SameOutcome(x, y) ==
    \A a \in {x}, b \in {y} :
        /\ a.error = b.error
        /\ a.board = b.board
        /\ a.stack = b.stack
        /\ a.with_tracking = b.with_tracking
        /\ a.observers = b.observers
        /\ SameLog(a.notes, b.notes)
        /\ SameLog(a.updates, b.updates)

\* C35: when UISenku.update, called with the GAME_OVER that ends an
\* execute(), restarts the game (the user answers yes), execute() returns
\* with the board in the initial layout and the history empty, the move
\* that ended the game not in it, and the last UNDO_STACK notified and
\* delivered reports an empty history; when the user answers no, or the
\* move does not end the game, execute() does what it does with observers
\* that call nothing.  execute() reads nothing of the selection, and a click
\* that selects changes nothing else, so every game is met with no selection
\* and the jumps are tried from there.
C35_ReentrantRestart ==
    /\ \A t \in JumpTriples :
          (ui.selection = NoSelection /\ LegalOccupancy(board, t)) =>
              \A yes \in {execute_ui(Enter, Move(t[1], t[3]), TRUE)},
                 plain \in {execute(Enter, Move(t[1], t[3]))} :
                  /\ SameOutcome(execute_ui(Enter, Move(t[1], t[3]), FALSE),
                                 plain)
                  /\ IF with_tracking /\ ~HasLegalJump(Jumped(board, <<t[1], t[3]>>))
                     THEN /\ yes.error = "none"
                          /\ yes.board = InitialLayout
                          /\ yes.stack.data = <<>>
                          /\ Cardinality(NotesOf(yes.notes, {"GAME_OVER"})) = 1
                          /\ Len(yes.notes) = 5 + 35
                          /\ SameLog(SubSeq(yes.notes, 1, 5), plain.notes)
                          /\ yes.notes[4].value # <<>>
                          /\ LastValue(yes.notes, "UNDO_STACK") = <<>>
                          /\ LastValue(yes.updates, "UNDO_STACK") = <<>>
                     ELSE SameOutcome(yes, plain)
    /\ (op = "click" /\ Len(notes) > 5) =>
          /\ notes[5].aspect = "GAME_OVER"
          /\ error = "none"
          /\ board = InitialLayout
          /\ Data = <<>>
          /\ LastValue(updates, "UNDO_STACK") = <<>>
          /\ ui.button = "DISABLED"

\* a click made the move that ended the game, the user answered yes: the
\* game is as new
C35_Witness ==
    /\ op = "click"
    /\ Len(notes) = 40
    /\ notes[5] = Note("GAME_OVER", 26)
    /\ notes[4].value # <<>>
    /\ notes[40] = Note("UNDO_STACK", <<>>)
    /\ board = InitialLayout
    /\ Data = <<>>

\* C36: once open_ui has been called, whenever no handler is running the
\* button of UndoButton is NORMAL exactly when the history is not empty;
\* so undo() called by the button finds a move to pop, and no operation
\* called by the UI ends with IndexError, nor with any other error.
C36_UndoButtonEnabled ==
    /\ ui.button \in {"NORMAL", "DISABLED"}
    /\ ui.opened => (ui.button = "NORMAL" <=> Data # <<>>)
    /\ (ui.opened /\ ui.button = "NORMAL") =>
          /\ ~pop_raises(undo_stack)
          /\ undo(Enter).error = "none"
    /\ (ui.opened /\ ui.button = "DISABLED") => undo(Enter).error = "IndexError"
    /\ error = "none"
    /\ op = "undo" => Len(notes) = 4

\* the button undid the last move the history held, on a board one move
\* away from the initial layout, and is now disabled
C36_Witness ==
    /\ ui.opened
    /\ op = "undo"
    /\ error = "none"
    /\ Data = <<>>
    /\ ui.button = "DISABLED"
    /\ Pegs(board) = 31

\* what the canvas shows is the board b: each cell of the cross, and no
\* other place, has a circle, red if the cell is occupied and black if not
Shows(canvas, b) ==
    /\ DOMAIN canvas = CrossCells
    /\ \A c \in CrossCells : canvas[c] = IF b[c] THEN "red" ELSE "black"

\* C37: BoardArea draws from the CELL_ON and CELL_OFF it is delivered and
\* from nothing else; once open_ui has made get_all_changes replay the
\* state, whenever no handler is running what it has drawn is the board
\* of the game, after every click that moves, undoes or restarts, the
\* restart made from inside a move included, and would be after any legal
\* jump made from there (tried where no cell is selected: the selection
\* changes neither the game nor the canvas).  Before, it has drawn nothing.
C37_CanvasIsBoard ==
    /\ ui.opened => Shows(ui.canvas, board)
    /\ ~ui.opened => \A c \in DOMAIN ui.canvas : ui.canvas[c] = "none"
    /\ (ui.opened /\ ui.selection = NoSelection) =>
          /\ \A t \in JumpTriples :
                LegalOccupancy(board, t) =>
                    \A answer \in BOOLEAN :
                        \A r \in {execute_ui(Enter, Move(t[1], t[3]), answer)} :
                            Shows(Observe(ui, r.updates, 1).canvas, r.board)

\* three moves were made and the third undone: the canvas shows the board
C37_Witness ==
    /\ ui.opened
    /\ op = "undo"
    /\ Pegs(board) = 30
    /\ Len(Data) = 2
    /\ Shows(ui.canvas, board)
    /\ ui.canvas[<<3, 3>>] = "black"

\* the cell of the cross whose square of the canvas holds the pixel (x, y):
\* rows run down the y axis and columns along the x axis, 40 pixels each
CellsAt(x, y) ==
    {c \in CrossCells : /\ 40 * c[2] <= x /\ x < 40 * c[2] + 40
                        /\ 40 * c[1] <= y /\ y < 40 * c[1] + 40}

\* the click changed nothing in the game and notified nothing
NoEngineCall(r) ==
    /\ r.game.board = board
    /\ r.game.stack = undo_stack
    /\ r.game.error = "none"
    /\ r.game.notes = <<>>
    /\ r.game.updates = <<>>

\* C38: a click on a cell with no selection sets the selection to that cell
\* and calls nothing of the game, the cell being occupied or not; a click
\* on a cell with a selection executes one move from the selection to the
\* cell and clears the selection, the move being made or not; a click on
\* no cell changes neither the selection nor the game.
C38_ClickProtocol ==
    /\ \A x, y \in Pixels :
          \A r \in {left_button_pressed(Enter, ui, x, y, FALSE)} :
              /\ r.ui.canvas = ui.canvas /\ r.ui.button = ui.button
              /\ IF CellsAt(x, y) = {}
                 THEN NoEngineCall(r) /\ r.ui = ui
                 ELSE \A c \in CellsAt(x, y) :
                        IF ui.selection = NoSelection
                        THEN NoEngineCall(r) /\ r.ui.selection = c
                        ELSE /\ r.ui.selection = NoSelection
                             /\ SameOutcome(r.game,
                                    execute(Enter, Move(ui.selection, c)))
                             /\ \/ \E t \in JumpTriples :
                                      /\ t[1] = ui.selection /\ t[3] = c
                                      /\ LegalOccupancy(board, t)
                                \/ NoEngineCall(r)
    /\ ui.selection # NoSelection => ui.selection \in CrossCells
    /\ (op = "click" /\ ui.selection # NoSelection) => notes = <<>>
    /\ (op = "click" /\ notes # <<>>) => ui.selection = NoSelection

\* a click selected the centre, which is empty: nothing of the game called
C38_Witness ==
    /\ op = "click"
    /\ ui.selection = <<3, 3>>
    /\ ~board[<<3, 3>>]
    /\ notes = <<>>
    /\ Data # <<>>

\* the aspects the game notifies
NotifiedAspects == {"CELL_ON", "CELL_OFF", "UNDO_STACK", "GAME_OVER"}

\* the observers in a list of registrations
InList(list) == {list[i] : i \in 1..Len(list)}

\* the calls of update() of log, from the place lo to the place hi, that
\* are made on the observer o
CallsOn(log, lo, hi, o) == {i \in lo..hi : log[i].observer = o}

\* C39 as claimed: notify(aspect, value) calls update() exactly once on
\* each observer registered for the aspect, then exactly once on each
\* observer registered for "all", calls no other observer, and does not
\* fail, whether or not the aspect has observers.
C39_AsClaimed ==
    \A a \in NotifiedAspects :
        LET r    == notify(Enter, a, 0)
            for  == Registered(observers, a)
            all  == Registered(observers, "all")
        IN  /\ r.error = "none"
            /\ Len(r.updates) = Len(for) + Len(all)
            /\ \A o \in ObserverNames :
                  /\ Cardinality(CallsOn(r.updates, 1, Len(for), o))
                        = IF o \in InList(for) THEN 1 ELSE 0
                  /\ Cardinality(CallsOn(r.updates, Len(for) + 1,
                                         Len(r.updates), o))
                        = IF o \in InList(all) THEN 1 ELSE 0

\* C39, amended: notify(aspect, value) calls update() once for each
\* registration for the aspect, in the order of the registrations, so twice
\* on an observer that was added twice for it, and then once for each
\* registration for "all"; it calls no observer registered only for other
\* aspects, does not fail, whether or not the aspect has observers, and
\* leaves the registrations as they are.
C39_OncePerRegistration ==
    /\ \A a \in NotifiedAspects :
          LET r   == notify(Enter, a, 0)
              for == Registered(observers, a)
              all == Registered(observers, "all")
          IN  /\ r.error = "none"
              /\ Len(r.updates) = Len(for) + Len(all)
              /\ \A i \in 1..Len(for) :
                    r.updates[i] = [observer |-> for[i], aspect |-> a, value |-> 0]
              /\ \A i \in 1..Len(all) :
                    r.updates[Len(for) + i]
                        = [observer |-> all[i], aspect |-> a, value |-> 0]
              /\ \A o \in ObserverNames :
                    Cardinality(CallsOn(r.updates, 1, Len(r.updates), o))
                        = Cardinality({i \in 1..Len(for) : for[i] = o})
                          + Cardinality({i \in 1..Len(all) : all[i] = o})
              /\ \A b \in AllAspects :
                    Registered(r.observers, b) = Registered(observers, b)
              /\ r.notes = <<Note(a, 0)>>
    /\ SameLog(updates, DeliveriesFrom(notes, observers, 1))

\* a move was made with the observer o1 added twice for UNDO_STACK: the
\* one UNDO_STACK notification called its update() twice
C39_Witness ==
    /\ op = "execute"
    /\ Registered(observers, "UNDO_STACK") = <<"o1", "o1">>
    /\ Len(notes) = 4
    /\ Len(updates) = 2
    /\ updates[1].observer = "o1" /\ updates[2].observer = "o1"
    /\ updates[1].aspect = "UNDO_STACK" /\ updates[2].aspect = "UNDO_STACK"

====
